---- MODULE Spec2Model ----
(***************************************************************************)
(* Content-resolution and query-composition engine of the Enonic adapter   *)
(* (src/src/_enonicAdapter/guillotine/fetchContent.ts).                    *)
(*                                                                         *)
(* Text is modelled as a sequence of tokens.  A token is a one-character   *)
(* string ("$", "/", "a", "0", ...) or a keyword that the code treats as   *)
(* a unit ("query", "guillotine", "fragdef", "sp", "nl").  String          *)
(* operations of the code (join, split, trim, substr, global replace,      *)
(* regular-expression matching) are operators over these sequences.        *)
(***************************************************************************)
EXTENDS Integers, Sequences, FiniteSets, TLC

VARIABLES
    cpSegs,     \* path normalizer: the segment sequence the caller has
    cpForm,     \* path normalizer: how the path was supplied
    cpOut,      \* path normalizer: what the normalizer returned
    cqDescs,    \* query combiner: the ordered descriptor list (queriesWithVars)
    cqOut,      \* query combiner: the returned {query, variables}
    bpType,     \* region-tree builder: the content type
    bpComps,    \* region-tree builder: the flat component list (comps)
    bpOut,      \* region-tree builder: what buildPage left behind
    pc,         \* fetcher: where the request stands
    context,    \* fetcher: the request (path argument and headers)
    registry,   \* fetcher: IS_DEV_MODE and the registered definitions
    xpBaseUrl,  \* utils.ts: the module-level base URL
    metaResp,   \* fetcher: the response to the metadata call
    contentResp,\* fetcher: the response to the batched content call
    calls,      \* fetcher: the graph calls issued so far
    loc,        \* fetcher: the local variables of the request
    outcomes,   \* fetcher: the processor promises, one per descriptor
    result,     \* fetcher: the FetchContentResult the request resolved with
    requests,   \* two requests in one process: the state of each handler
    gqResps,    \* graph fetcher: two responses to compare
    gqOut       \* graph fetcher: the GuillotineResult for each of them

pathVars == <<cpSegs, cpForm, cpOut>>
combVars == <<cqDescs, cqOut>>
pageVars == <<bpType, bpComps, bpOut>>
fetchVars == <<pc, context, registry, xpBaseUrl, metaResp, contentResp, calls, loc,
               outcomes, result>>
twoVars == <<requests>>
errVars == <<gqResps, gqOut>>

vars == <<cpSegs, cpForm, cpOut, cqDescs, cqOut, bpType, bpComps, bpOut,
          pc, context, registry, xpBaseUrl, metaResp, contentResp, calls, loc,
          outcomes, result, requests, gqResps, gqOut>>

None == "none"

\* undefined / null where the code expects an object
Undef == [undefined |-> TRUE]

\* the variables of the other components when one component is exercised
notPath == <<combVars, pageVars, fetchVars, twoVars, errVars>>
notComb == <<pathVars, pageVars, fetchVars, twoVars, errVars>>
notPage == <<pathVars, combVars, fetchVars, twoVars, errVars>>
notFetch == <<pathVars, combVars, pageVars, twoVars, errVars>>

CombIdle == cqDescs = <<>> /\ cqOut = Undef
FetchIdle ==
    /\ pc = "idle"
    /\ context = Undef
    /\ registry = Undef
    /\ xpBaseUrl = <<>>
    /\ metaResp = Undef
    /\ contentResp = Undef
    /\ calls = [meta |-> 0, content |-> 0]
    /\ loc = Undef
    /\ outcomes = <<>>
    /\ result = Undef
PageIdle == bpType = None /\ bpComps = <<>> /\ bpOut = Undef
PathIdle == cpSegs = <<>> /\ cpForm = None /\ cpOut = Undef
TwoIdle == requests = <<>>
ErrIdle == gqResps = <<>> /\ gqOut = Undef

---------------------------------------------------------------------------
(* Generic sequence helpers                                                *)

RECURSIVE Flatten(_)
Flatten(ss) ==
    IF ss = <<>> THEN <<>> ELSE Head(ss) \o Flatten(Tail(ss))

\* Array.prototype.join(sep) over token sequences
RECURSIVE JoinWith(_, _)
JoinWith(ss, sep) ==
    IF ss = <<>> THEN <<>>
    ELSE IF Len(ss) = 1 THEN Head(ss)
    ELSE Head(ss) \o sep \o JoinWith(Tail(ss), sep)

\* all sequences over S of length 0..n
SeqsUpTo(S, n) == UNION {[1..k -> S] : k \in 0..n}

IsWs(t) == t \in {"sp", "nl"}

\* drop leading whitespace (a leading \\s* of a regular expression)
RECURSIVE SkipWs(_)
SkipWs(s) ==
    IF s # <<>> /\ IsWs(Head(s)) THEN SkipWs(Tail(s)) ELSE s

RECURSIVE DropTrailingWs(_)
DropTrailingWs(s) ==
    IF s # <<>> /\ IsWs(s[Len(s)]) THEN DropTrailingWs(SubSeq(s, 1, Len(s) - 1)) ELSE s

\* String.prototype.trim
Trim(s) == DropTrailingWs(SkipWs(s))

\* String.prototype.substr(1)
Substr1(s) == IF s = <<>> THEN <<>> ELSE Tail(s)

StartsWith(s, pat) ==
    /\ Len(pat) <= Len(s)
    /\ SubSeq(s, 1, Len(pat)) = pat

\* first position of token t in s, 0 when absent
IndexOf(s, t) ==
    IF \E i \in 1..Len(s) : s[i] = t
    THEN CHOOSE i \in 1..Len(s) : s[i] = t /\ \A j \in 1..(i - 1) : s[j] # t
    ELSE 0

\* String.prototype.split(sep) for a one-token separator
RECURSIVE SplitOn(_, _)
SplitOn(s, sep) ==
    LET i == IndexOf(s, sep)
    IN  IF i = 0 THEN <<s>>
        ELSE <<SubSeq(s, 1, i - 1)>> \o SplitOn(SubSeq(s, i + 1, Len(s)), sep)

\* String.prototype.replace(new RegExp(pat, "g"), rep) for a literal pattern:
\* leftmost non-overlapping occurrences, the replacement is not rescanned
RECURSIVE ReplaceAll(_, _, _)
ReplaceAll(s, pat, rep) ==
    IF pat = <<>>
    THEN IF s = <<>> THEN rep ELSE rep \o <<Head(s)>> \o ReplaceAll(Tail(s), pat, rep)
    ELSE IF s = <<>> THEN <<>>
    ELSE IF StartsWith(s, pat)
         THEN rep \o ReplaceAll(SubSeq(s, Len(pat) + 1, Len(s)), pat, rep)
         ELSE <<Head(s)>> \o ReplaceAll(Tail(s), pat, rep)

\* positions at which pat occurs in s
Occurrences(s, pat) ==
    {i \in 1..Len(s) : StartsWith(SubSeq(s, i, Len(s)), pat)}

DigitOf(n) == <<"0", "1", "2", "3", "4", "5", "6", "7", "8", "9">>[n + 1]

\* decimal text of a number >= 0, as `${n}` writes it
RECURSIVE Digits(_)
Digits(n) ==
    IF n < 10 THEN <<DigitOf(n)>> ELSE Digits(n \div 10) \o <<DigitOf(n % 10)>>

---------------------------------------------------------------------------
(* 4.1 Path Normalizer                                                     *)

MaxSegs == 3

PathSegments == {<<>>, <<"a">>, <<"b">>, <<"a", "b">>}

Undefined(x) == x.kind = "undefined"

\* result of a call: a returned string or a thrown Error carrying {code}
Returned(v) == [ok |-> TRUE, val |-> v]
Thrown(c)   == [ok |-> FALSE, code |-> c]

getCleanContentPathArrayOrThrow400_NoSlash(contentPath) ==
    IF Undefined(contentPath) THEN Returned(<<>>)
    ELSE IF contentPath.kind # "array"
         THEN IF contentPath.kind # "string"
              THEN Thrown("400")
              ELSE Returned(contentPath.val)
         ELSE Returned(Flatten(contentPath.val))

getCleanContentPathArrayOrThrow400(contentPath) ==
    IF Undefined(contentPath) THEN Returned(<<>>)
    ELSE IF contentPath.kind # "array"
         THEN IF contentPath.kind # "string"
              THEN Thrown("400")
              ELSE Returned(contentPath.val)
         ELSE Returned(JoinWith(contentPath.val, <<"/">>))

\* the caller's argument for each way of supplying the path
AsArgument(segs, form) ==
    CASE form = "string"    -> [kind |-> "string", val |-> JoinWith(segs, <<"/">>)]
      [] form = "array"     -> [kind |-> "array", val |-> segs]
      [] form = "undefined" -> [kind |-> "undefined"]
      [] OTHER              -> [kind |-> "number"]

PathInit ==
    /\ cpSegs \in SeqsUpTo(PathSegments, MaxSegs)
    /\ cpForm = None
    /\ cpOut = Undef
    /\ CombIdle
    /\ PageIdle
    /\ FetchIdle
    /\ TwoIdle
    /\ ErrIdle

NormalizeString ==
    /\ cpForm = None
    /\ cpForm' = "string"
    /\ cpOut' = getCleanContentPathArrayOrThrow400(AsArgument(cpSegs, "string"))
    /\ UNCHANGED <<cpSegs, notPath>>

NormalizeArray ==
    /\ cpForm = None
    /\ cpForm' = "array"
    /\ cpOut' = getCleanContentPathArrayOrThrow400(AsArgument(cpSegs, "array"))
    /\ UNCHANGED <<cpSegs, notPath>>

NormalizeAbsent ==
    /\ cpForm = None
    /\ cpForm' = "undefined"
    /\ cpOut' = getCleanContentPathArrayOrThrow400(AsArgument(cpSegs, "undefined"))
    /\ UNCHANGED <<cpSegs, notPath>>

NormalizeInvalid ==
    /\ cpForm = None
    /\ cpForm' = "number"
    /\ cpOut' = getCleanContentPathArrayOrThrow400(AsArgument(cpSegs, "number"))
    /\ UNCHANGED <<cpSegs, notPath>>

PathNext == NormalizeString \/ NormalizeArray \/ NormalizeAbsent \/ NormalizeInvalid

SpecPath == PathInit /\ [][PathNext]_vars

OtherForm(form) == IF form = "string" THEN "array" ELSE "string"

---------------------------------------------------------------------------
(* 4.4 Query Combiner                                                      *)

MaxDescs == 3

ALIAS_PREFIX == <<"r", "e", "q", "u", "e", "s", "t">>

\* `${ALIAS_PREFIX}${index}` with the index left out
AliasOf_NoIndex(index) == ALIAS_PREFIX

\* `${ALIAS_PREFIX}${index}`
AliasOf(index) == ALIAS_PREFIX \o Digits(index)

\* GRAPHQL_FRAGMENTS_REGEXP: a standalone fragment definition is the token
\* "fragdef"; q.match gives the first one, or null
GRAPHQL_FRAGMENTS_REGEXP(q) ==
    IF IndexOf(q, "fragdef") = 0 THEN Undef ELSE [text |-> <<"fragdef">>]

\* q.replace(match[0], ''): the first occurrence is removed
RemoveFirst(q, t) ==
    LET i == IndexOf(q, t)
    IN  IF i = 0 THEN q ELSE SubSeq(q, 1, i - 1) \o SubSeq(q, i + 1, Len(q))

\* GUILLOTINE_QUERY_REGEXP:
\*   ^\s*query\s*(?:\((.*)*\))?\s*{\s*guillotine\s*{((?:.|\s)+)}\s*}\s*$
\* null (Undef), or the two groups [args, body]; hasArgs is FALSE when the
\* first group did not take part (no parentheses, or nothing between them)
ExpectToken(s, tok) ==
    IF s # <<>> /\ Head(s) = tok THEN SkipWs(Tail(s)) ELSE <<"nomatch">>

\* the closing brace at the end of e taken off
BraceOff(e) ==
    IF e # <<>> /\ e[Len(e)] = "}" THEN SubSeq(e, 1, Len(e) - 1) ELSE <<"nomatch">>

\* ((?:.|\s)+)}\s*}\s*$ on what follows `guillotine {`: the second group,
\* <<>> if there is no match
BodyGroup(s6) ==
    LET b == BraceOff(DropTrailingWs(BraceOff(DropTrailingWs(s6))))
    IN  IF b = <<"nomatch">> THEN <<>> ELSE b

\* (?:\((.*)*\))? at the head of s2: whether the parentheses are there
HasParens(s2) ==
    /\ s2 # <<>>
    /\ Head(s2) = "("
    /\ IndexOf(s2, ")") # 0
    /\ \A k \in 1..IndexOf(s2, ")") : s2[k] # "nl"

\* the first group, <<>> if it did not take part
ArgsGroup(s2) ==
    IF HasParens(s2) THEN SubSeq(s2, 2, IndexOf(s2, ")") - 1) ELSE <<>>

AfterParens(s2) ==
    IF HasParens(s2) THEN SkipWs(SubSeq(s2, IndexOf(s2, ")") + 1, Len(s2))) ELSE s2

\* `{` after `guillotine` and the white space before it
OpenBrace(s5) == IF s5 # <<>> /\ Head(s5) = "{" THEN Tail(s5) ELSE <<"nomatch">>

MatchOf(args, body) ==
    IF body # <<>> THEN [hasArgs |-> args # <<>>, args |-> args, body |-> body] ELSE Undef

\* what follows `query` and the white space after it
MatchAfterQuery(s2) ==
    MatchOf(ArgsGroup(s2),
            BodyGroup(OpenBrace(ExpectToken(ExpectToken(AfterParens(s2), "{"), "guillotine"))))

GUILLOTINE_QUERY_REGEXP(q) == MatchAfterQuery(ExpectToken(SkipWs(q), "query"))

\* one round of args.split(',').forEach: st = [superParams, query]
PrefixedKey(originalKey, index) ==
    <<"$">> \o AliasOf(index) \o <<"_">> \o Substr1(originalKey)

RewriteParts(st, parts, index) ==
    [superParams |-> Append(st.superParams,
                            PrefixedKey(parts[1], index) \o <<":">>
                               \o (IF Len(parts) >= 2 THEN parts[2] ELSE <<"undefined">>)),
     query |-> ReplaceAll(st.query, parts[1], PrefixedKey(parts[1], index))]

RewriteParam(st, originalParamString, index) ==
    RewriteParts(st, SplitOn(Trim(originalParamString), ":"), index)

RECURSIVE RewriteParams(_, _, _)
RewriteParams(st, paramStrings, index) ==
    IF paramStrings = <<>> THEN st
    ELSE RewriteParams(RewriteParam(st, Head(paramStrings), index), Tail(paramStrings), index)

\* Object.entries(variables).forEach: every key goes in under its alias
MergedVars(superVars, variables, index) ==
    [nk \in (DOMAIN superVars) \union {AliasOf(index) \o <<"_">> \o k : k \in DOMAIN variables} |->
       IF \E k \in DOMAIN variables : nk = AliasOf(index) \o <<"_">> \o k
       THEN variables[CHOOSE k \in DOMAIN variables : nk = AliasOf(index) \o <<"_">> \o k]
       ELSE superVars[nk]]

\* the query and the parameters once the match is known
Rewritten(superParams, match, index) ==
    IF match = Undef THEN [superParams |-> superParams, query |-> <<>>]
    ELSE IF match.hasArgs
    THEN RewriteParams([superParams |-> superParams, query |-> match.body],
                       SplitOn(match.args, ","), index)
    ELSE [superParams |-> superParams, query |-> match.body]

Accumulated(acc, variables, fmatch, st, index) ==
    [queries |-> IF Len(st.query) > 0
                 THEN Append(acc.queries,
                             AliasOf(index) \o <<":", "guillotine", "sp", "{">>
                                \o st.query \o <<"}">>)
                 ELSE acc.queries,
     fragments |-> IF fmatch # Undef THEN Append(acc.fragments, fmatch.text)
                   ELSE acc.fragments,
     superParams |-> st.superParams,
     superVars |-> MergedVars(acc.superVars, variables, index)]

\* the fragment definition taken out of the query
WithoutFragment(q, fmatch) == IF fmatch # Undef THEN RemoveFirst(q, fmatch.text[1]) ELSE q

CombineQuery(acc, queryAndVars, fmatch, index) ==
    Accumulated(acc, queryAndVars.variables, fmatch,
                Rewritten(acc.superParams,
                          GUILLOTINE_QUERY_REGEXP(WithoutFragment(queryAndVars.query, fmatch)),
                          index),
                index)

\* the body of queriesWithVars.forEach for one descriptor;
\* acc = [queries, fragments, superVars, superParams], index counts from 0
CombineDescriptor(acc, componentDescriptor, index) ==
    IF componentDescriptor.queryAndVariables = Undef THEN acc
    ELSE CombineQuery(acc, componentDescriptor.queryAndVariables,
                      GRAPHQL_FRAGMENTS_REGEXP(componentDescriptor.queryAndVariables.query),
                      index)

RECURSIVE CombineFrom(_, _, _)
CombineFrom(acc, queriesWithVars, index) ==
    IF index >= Len(queriesWithVars) THEN acc
    ELSE CombineFrom(CombineDescriptor(acc, queriesWithVars[index + 1], index),
                     queriesWithVars, index + 1)

EmptyMap == [k \in {} |-> "v"]

SuperQuery(acc) ==
    <<"query", "sp">>
    \o (IF Len(acc.superParams) > 0
        THEN <<"(">> \o JoinWith(acc.superParams, <<",", "sp">>) \o <<")">>
        ELSE <<>>)
    \o <<"sp", "{", "nl", "sp">>
    \o JoinWith(acc.queries, <<"nl">>)
    \o <<"nl", "sp", "}", "nl", "sp">>
    \o JoinWith(acc.fragments, <<"nl">>)
    \o <<"nl", "sp">>

Combined(acc) == [query |-> SuperQuery(acc), variables |-> acc.superVars]

combineMultipleQueries(queriesWithVars) ==
    Combined(CombineFrom([queries |-> <<>>, fragments |-> <<>>,
                          superVars |-> EmptyMap, superParams |-> <<>>],
                         queriesWithVars, 0))

(* The descriptors the combiner is exercised with.  A registered query is  *)
(* described by its shape, its declared parameters, the variables its body *)
(* refers to and whether a fragment definition follows it; QueryText       *)
(* writes it out.                                                          *)

VarP  == <<"p">>
VarPx == <<"p", "x">>
VarR  == <<"r">>

ParamLists ==
    {<<>>, <<VarP>>, <<VarP, VarPx>>, <<VarPx, VarP>>, <<VarP, VarR>>, <<VarR, VarP>>}

ParamText(name) == <<"$">> \o name \o <<":", "T">>
RefText(name)   == <<"sp", "$">> \o name

QueryText(shape, params, frag) ==
    (IF shape = "guillotine"
     THEN <<"query">>
          \o (IF params = <<>> THEN <<>>
              ELSE <<"(">> \o JoinWith([k \in 1..Len(params) |-> ParamText(params[k])],
                                       <<",", "sp">>) \o <<")">>)
          \o <<"sp", "{", "sp", "guillotine", "sp", "{">>
          \o Flatten([k \in 1..Len(params) |-> RefText(params[k])])
          \o <<"sp", "}", "sp", "}">>
     ELSE <<"{", "sp", "b", "sp", "}">>)
    \o (IF frag THEN <<"nl", "fragdef">> ELSE <<>>)

\* variables default to {path}; a registered variables function is taken
\* to return one value per declared parameter
VariablesFor(params, val) ==
    IF params = <<>> THEN [k \in {VarP} |-> val]
    ELSE [k \in {params[i] : i \in 1..Len(params)} |-> val]

Descriptor(shape, params, frag, val) ==
    [shape |-> shape, params |-> params,
     queryAndVariables |-> [query |-> QueryText(shape, params, frag),
                            variables |-> VariablesFor(params, val)]]

NoQueryDescriptor == [shape |-> None, params |-> <<>>, queryAndVariables |-> Undef]

Descriptors ==
    {NoQueryDescriptor}
    \union {Descriptor("guillotine", ps, fr, "v") : ps \in ParamLists, fr \in BOOLEAN}
    \union {Descriptor("bare", <<>>, FALSE, "v")}

CombInit ==
    /\ cqDescs \in SeqsUpTo(Descriptors, MaxDescs)
    /\ cqOut = Undef
    /\ PathIdle
    /\ PageIdle
    /\ FetchIdle
    /\ TwoIdle
    /\ ErrIdle

Combine ==
    /\ cqOut = Undef
    /\ cqOut' = combineMultipleQueries(cqDescs)
    /\ UNCHANGED <<cqDescs, notComb>>

CombNext == Combine

SpecCombine == CombInit /\ [][CombNext]_vars

\* the opening of the aliased block of descriptor index i
BlockHead(i) == ALIAS_PREFIX \o Digits(i) \o <<":", "guillotine", "sp", "{">>

Matching(d) == d.shape = "guillotine"

\* C1: the combined query holds exactly one block request<i>:guillotine {
\* for each descriptor i with a query of the expected shape and none for any
\* other descriptor, the blocks come in ascending i, and every key of the
\* merged variables is request<i>_<key> for a variable key of descriptor i.
C1_OneBlockPerMatchingDescriptor ==
    cqOut # Undef =>
      /\ \A i \in 1..Len(cqDescs) :
           Cardinality(Occurrences(cqOut.query, BlockHead(i - 1)))
              = IF Matching(cqDescs[i]) THEN 1 ELSE 0
      /\ Cardinality(Occurrences(cqOut.query, <<":", "guillotine">>))
              = Cardinality({i \in 1..Len(cqDescs) : Matching(cqDescs[i])})
      /\ \A i, j \in 1..Len(cqDescs) :
           (i < j /\ Matching(cqDescs[i]) /\ Matching(cqDescs[j])) =>
              \A a \in Occurrences(cqOut.query, BlockHead(i - 1)) :
                \A b \in Occurrences(cqOut.query, BlockHead(j - 1)) : a < b
      /\ \A key \in DOMAIN cqOut.variables :
           \E i \in 1..Len(cqDescs) :
              /\ cqDescs[i].queryAndVariables # Undef
              /\ \E k \in DOMAIN cqDescs[i].queryAndVariables.variables :
                    key = ALIAS_PREFIX \o Digits(i - 1) \o <<"_">> \o k

C1_Witness ==
    /\ cqOut # Undef
    /\ Len(cqDescs) = 3
    /\ cqDescs[1] = NoQueryDescriptor
    /\ cqDescs[2].shape = "bare"
    /\ cqDescs[3] = Descriptor("guillotine", <<VarP>>, TRUE, "v")
    /\ Occurrences(cqOut.query, BlockHead(2)) # {}
    /\ DOMAIN cqOut.variables =
         {ALIAS_PREFIX \o <<"1", "_">> \o VarP, ALIAS_PREFIX \o <<"2", "_">> \o VarP}

\* the parameter declaration and the variable reference as they have to
\* read after the rewrite
AliasedVar(i, name) == <<"$">> \o ALIAS_PREFIX \o Digits(i) \o <<"_">> \o name
AliasedKey(i, name) == ALIAS_PREFIX \o Digits(i) \o <<"_">> \o name

ExpectedBlock(i, params) ==
    BlockHead(i)
    \o Flatten([k \in 1..Len(params) |-> <<"sp">> \o AliasedVar(i, params[k])])
    \o <<"sp", "}">>

\* C2: for a descriptor at index i that declares $name, the declaration and
\* every reference to $name in its body read $request<i>_name after the
\* rewrite (also next to a variable of which name is a prefix), and the
\* parameters, references and variable keys of two descriptors that declare
\* the same name stay distinct.
C2_VariablesRewrittenThroughout ==
    cqOut # Undef =>
      \A i \in 1..Len(cqDescs) :
        Matching(cqDescs[i]) =>
          LET params == cqDescs[i].params
          IN  /\ \A k \in 1..Len(params) :
                   /\ Cardinality(Occurrences(cqOut.query,
                         AliasedVar(i - 1, params[k]) \o <<":">>)) = 1
                   /\ AliasedKey(i - 1, params[k]) \in DOMAIN cqOut.variables
              /\ Occurrences(cqOut.query, ExpectedBlock(i - 1, params)) # {}
              /\ \A j \in 1..Len(cqDescs) : \A k \in 1..Len(params) :
                   \A m \in 1..Len(cqDescs[j].params) :
                     (j # i /\ Matching(cqDescs[j])) =>
                        AliasedVar(i - 1, params[k]) # AliasedVar(j - 1, cqDescs[j].params[m])

---------------------------------------------------------------------------
(* 4.5 Component-Path / Region-Tree Builder                                *)
(*                                                                         *)
(* A component path is a token sequence: "/", a region name, or one digit. *)
(* Components are objects the code mutates in place; a component is named  *)
(* by its position in the list, a region by its owner (0 for the local     *)
(* tree, else the layout that holds it) and its name.                      *)

MaxComps == 3

FRAGMENT_CONTENTTYPE_NAME == "portal:fragment"
FRAGMENT_DEFAULT_REGION_NAME == <<"fragment">>

DigitTokens == {"0", "1", "2", "3", "4", "5", "6", "7", "8", "9"}
IsDigit(t) == t \in DigitTokens
\* \w: a region name or a digit
IsWord(t) == t # "/"

DigitValue(t) == CHOOSE n \in 0..9 : DigitOf(n) = t

\* unary plus on a digit string
RECURSIVE ToNumber(_)
ToNumber(ds) ==
    IF ds = <<>> THEN 0
    ELSE 10 * ToNumber(SubSeq(ds, 1, Len(ds) - 1)) + DigitValue(ds[Len(ds)])

\* length of the longest run of tokens satisfying the class from position i
RECURSIVE WordRun(_, _)
WordRun(s, i) == IF i <= Len(s) /\ IsWord(s[i]) THEN 1 + WordRun(s, i + 1) ELSE 0

RECURSIVE DigitRun(_, _)
DigitRun(s, i) == IF i <= Len(s) /\ IsDigit(s[i]) THEN 1 + DigitRun(s, i + 1) ELSE 0

\* the exec loop over /(?:(\w+)\/(\d+))+/g from position i: each match is
\* a run of word tokens, "/", a run of digits
RECURSIVE RegionIndexMatches(_, _)
RegionIndexMatches(path, i) ==
    IF i > Len(path) THEN <<>>
    ELSE
    LET w == WordRun(path, i)
        d == IF w > 0 /\ i + w <= Len(path) /\ path[i + w] = "/"
             THEN DigitRun(path, i + w + 1) ELSE 0
    IN  IF d > 0
        THEN <<[region |-> SubSeq(path, i, i + w - 1),
                index |-> ToNumber(SubSeq(path, i + w + 1, i + w + d))]>>
             \o RegionIndexMatches(path, i + w + 1 + d)
        ELSE RegionIndexMatches(path, i + 1)

parseComponentPath_NoFragmentRegion(contentType, path) ==
    RegionIndexMatches(path, 1)

parseComponentPath(contentType, path) ==
    LET matches == RegionIndexMatches(path, 1)
    IN  IF contentType = FRAGMENT_CONTENTTYPE_NAME
        THEN <<[region |-> FRAGMENT_DEFAULT_REGION_NAME, index |-> 0]>> \o matches
        ELSE matches

prefixLayoutPath(contentType, path) ==
    IF contentType # FRAGMENT_CONTENTTYPE_NAME THEN path
    ELSE <<"/">> \o FRAGMENT_DEFAULT_REGION_NAME \o <<"/", "0">>
         \o (IF path = <<"/">> THEN <<>> ELSE path)

EmptyTree == [r \in {} |-> Undef]

\* the RegionTree an owner holds: the local tree of buildPage or layout.regions
TreeOf(st, owner) == IF owner = 0 THEN st.tree ELSE st.regions[owner]

WithTree(st, owner, t) ==
    IF owner = 0 THEN [st EXCEPT !.tree = t]
    ELSE [st EXCEPT !.regions = [st.regions EXCEPT ![owner] = t]]

WithRegion(t, name, region) ==
    [r \in (DOMAIN t) \union {name} |-> IF r = name THEN region ELSE t[r]]

\* components.find(cmp => cmp.type === LAYOUT && prefixLayoutPath(..) === parentPath)
FindLayout_AnyType(comps, contentType, parentPath) ==
    LET hits == {k \in 1..Len(comps) :
                    prefixLayoutPath(contentType, comps[k].path) = parentPath}
    IN  IF hits = {} THEN 0 ELSE CHOOSE k \in hits : \A m \in hits : k <= m

FindLayout(comps, contentType, parentPath) ==
    LET hits == {k \in 1..Len(comps) :
                    /\ comps[k].type = "layout"
                    /\ prefixLayoutPath(contentType, comps[k].path) = parentPath}
    IN  IF hits = {} THEN 0 ELSE CHOOSE k \in hits : \A m \in hits : k <= m

\* the for loop of getParentRegion from fragment i on.  st = [tree, regions,
\* ...]; the result adds region (Undef, or [owner, name]) and thrown
RECURSIVE WalkPath(_, _, _, _, _, _, _, _, _)
WalkPath(st, contentType, components, createMissing, path, i, owner, parentPath, region) ==
    IF i > Len(path) THEN [st |-> st, region |-> region, thrown |-> None]
    ELSE
    LET regionName == path[i].region
        parentPath2 == parentPath \o <<"/">> \o regionName \o <<"/">> \o Digits(path[i].index)
        currentTree == TreeOf(st, owner)
        missing == regionName \notin DOMAIN currentTree
        st1 == IF missing /\ createMissing
               THEN WithTree(st, owner,
                             WithRegion(currentTree, regionName,
                                        [name |-> regionName, components |-> <<>>]))
               ELSE st
        layout == FindLayout(components, contentType, parentPath2)
    IN  IF missing /\ ~createMissing
        THEN [st |-> st, region |-> Undef, thrown |-> "RegionNotFound"]
        ELSE IF i < Len(path)
        THEN IF layout = 0
             THEN [st |-> st1, region |-> Undef, thrown |-> "LayoutNotFound"]
             ELSE WalkPath(IF st1.regions[layout] = Undef
                           THEN WithTree(st1, layout, EmptyTree) ELSE st1,
                           contentType, components, createMissing, path, i + 1,
                           layout, parentPath2, [owner |-> owner, name |-> regionName])
        ELSE WalkPath(st1, contentType, components, createMissing, path, i + 1,
                      owner, parentPath2, [owner |-> owner, name |-> regionName])

getParentRegion(st, contentType, cmpPath, components, createMissing) ==
    WalkPath(st, contentType, components, createMissing,
             parseComponentPath(contentType, cmpPath), 1, 0, <<>>, Undef)

\* Array.prototype.splice(start, 0, item); start NaN counts as 0 and a start
\* past the end as the end
Splice(list, start, item) ==
    LET at == IF start > Len(list) THEN Len(list) ELSE start
    IN  SubSeq(list, 1, at) \o <<item>> \o SubSeq(list, at + 1, Len(list))

\* +cmp.path.substr(cmp.path.length - 1): the number the last character
\* gives, NaN (here -1) if it is no digit
LastCharIndex(path) ==
    IF IsDigit(path[Len(path)]) THEN DigitValue(path[Len(path)]) ELSE -1

SpliceIndex(cmpIndex) == IF cmpIndex < 0 THEN 0 ELSE cmpIndex

\* the body of comps.forEach for component k
PlaceComponent(st, contentType, comps, k) ==
    LET cmp == comps[k]
    IN  IF cmp.path = <<"/">> /\ cmp.type = "page"
        THEN [st EXCEPT !.page = [type |-> cmp.type, path |-> cmp.path, page |-> cmp.page],
                        !.attached = TRUE]
        ELSE
        LET got == getParentRegion(st, contentType, cmp.path, comps, TRUE)
            st1 == got.st
            t == TreeOf(st1, got.region.owner)
            name == got.region.name
            region == t[name]
        IN  IF got.thrown # None THEN [st1 EXCEPT !.thrown = got.thrown]
            ELSE IF got.region = Undef THEN st1
            ELSE WithTree(st1, got.region.owner,
                          WithRegion(t, name,
                                     [region EXCEPT !.components =
                                        Splice(region.components,
                                               SpliceIndex(LastCharIndex(cmp.path)), k)]))

RECURSIVE PlaceFrom(_, _, _, _)
PlaceFrom(st, contentType, comps, k) ==
    IF k > Len(comps) \/ st.thrown # None THEN st
    ELSE PlaceFrom(PlaceComponent(st, contentType, comps, k), contentType, comps, k + 1)

\* a variant that hangs the local tree on the page node from the start
buildPage_RegionsFromStart(contentType, comps) ==
    PlaceFrom([page |-> [type |-> "page", path |-> <<"/">>, page |-> Undef],
               attached |-> TRUE,
               tree |-> EmptyTree,
               regions |-> [k \in 1..Len(comps) |-> Undef],
               thrown |-> None],
              contentType, comps, 1)

\* buildPage: page is the returned node (attached: page.page.regions is the
\* local tree), tree the local tree, regions[k] the regions of component k,
\* thrown the exception that ended it (None if it returned)
buildPage(contentType, comps) ==
    PlaceFrom([page |-> [type |-> "page", path |-> <<"/">>, page |-> Undef],
               attached |-> FALSE,
               tree |-> EmptyTree,
               regions |-> [k \in 1..Len(comps) |-> Undef],
               thrown |-> None],
              contentType, comps, 1)

(* The component lists the builder is exercised with: pairwise distinct    *)
(* canonical paths, in any order; a page component sits at "/".            *)

RootPath == <<"/">>
ComponentPaths ==
    {RootPath,
     <<"/", "main", "/", "0">>, <<"/", "main", "/", "1">>, <<"/", "main", "/", "2">>,
     <<"/", "main", "/", "1", "0">>,
     <<"/", "main", "/", "0", "/", "left", "/", "0">>,
     <<"/", "main", "/", "0", "/", "left", "/", "1">>}

PagePayload == [descriptor |-> "app:main"]

Component(type, path) ==
    [type |-> type, path |-> path, page |-> IF type = "page" THEN PagePayload ELSE Undef]

Components ==
    {Component(t, RootPath) : t \in {"page", "part", "layout"}}
    \union {Component(t, pth) : t \in {"part", "layout"}, pth \in ComponentPaths \ {RootPath}}

ComponentLists ==
    {cs \in SeqsUpTo(Components, MaxComps) :
        \A a, b \in 1..Len(cs) : a # b => cs[a].path # cs[b].path}

ContentTypes == {FRAGMENT_CONTENTTYPE_NAME, "base:folder"}

PageInit ==
    /\ bpType \in ContentTypes
    /\ bpComps \in ComponentLists
    /\ bpOut = Undef
    /\ PathIdle
    /\ CombIdle
    /\ FetchIdle
    /\ TwoIdle
    /\ ErrIdle

BuildPage ==
    /\ bpOut = Undef
    /\ bpOut' = buildPage(bpType, bpComps)
    /\ UNCHANGED <<bpType, bpComps, notPage>>

PageNext == BuildPage

SpecPage == PageInit /\ [][PageNext]_vars

Built == bpOut # Undef /\ bpOut.thrown = None

\* every region there is after the build: of the local tree and of layouts
RegionsBuilt ==
    {bpOut.tree[r] : r \in DOMAIN bpOut.tree}
    \union UNION {{bpOut.regions[k][r] : r \in DOMAIN bpOut.regions[k]} :
                    k \in {m \in 1..Len(bpComps) : bpOut.regions[m] # Undef}}

\* the slot index a path declares: the number its last segment spells
SlotIndex(path) ==
    IF path = RootPath THEN 0
    ELSE LET slash == CHOOSE i \in 1..Len(path) :
                         path[i] = "/" /\ \A j \in (i + 1)..Len(path) : path[j] # "/"
         IN  ToNumber(SubSeq(path, slash + 1, Len(path)))

\* C3: for every component list with distinct paths, in whatever order,
\* the components of every region are in ascending order of slot index.
C3_RegionsOrderedBySlotIndex ==
    Built =>
      \A region \in RegionsBuilt :
        \A a, b \in 1..Len(region.components) :
          a < b => SlotIndex(bpComps[region.components[a]].path)
                     < SlotIndex(bpComps[region.components[b]].path)

\* the address of a component in the page structure: its path, below
\* /fragment/0 in a fragment content
AddressOf(contentType, path) ==
    IF contentType = FRAGMENT_CONTENTTYPE_NAME
    THEN <<"/", "fragment", "/", "0">> \o (IF path = RootPath THEN <<>> ELSE path)
    ELSE path

\* the (region, index) prefixes of an address that are not the whole of it
NonTerminalPrefixes(addr) ==
    {SubSeq(addr, 1, k) : k \in {m \in 1..(Len(addr) - 1) : IsDigit(addr[m]) /\ addr[m + 1] = "/"}}

LayoutsAt(contentType, comps, prefix) ==
    {k \in 1..Len(comps) :
        comps[k].type = "layout" /\ AddressOf(contentType, comps[k].path) = prefix}

\* the components buildPage routes to a region
Routed(comps) == {k \in 1..Len(comps) : ~(comps[k].path = RootPath /\ comps[k].type = "page")}

MissingLayout(contentType, comps) ==
    \E k \in Routed(comps) :
       \E pre \in NonTerminalPrefixes(AddressOf(contentType, comps[k].path)) :
          LayoutsAt(contentType, comps, pre) = {}

\* the longest non-terminal prefix of an address and the region named after it
ParentPrefix(addr) ==
    CHOOSE pre \in NonTerminalPrefixes(addr) :
       \A other \in NonTerminalPrefixes(addr) : Len(other) <= Len(pre)

LastSlash(addr) ==
    CHOOSE i \in 1..Len(addr) : addr[i] = "/" /\ \A j \in (i + 1)..Len(addr) : addr[j] # "/"

OwnRegionName(addr) ==
    IF NonTerminalPrefixes(addr) = {} THEN SubSeq(addr, 2, LastSlash(addr) - 1)
    ELSE SubSeq(addr, Len(ParentPrefix(addr)) + 2, LastSlash(addr) - 1)

InRegion(tree, name, k) ==
    /\ tree # Undef
    /\ name \in DOMAIN tree
    /\ \E a \in 1..Len(tree[name].components) : tree[name].components[a] = k

\* C4: if the path of some component has a non-terminal (region, index)
\* prefix at which the list holds no layout, the build fails with the
\* layout-not-found error and returns no page; otherwise every such
\* component is placed in the regions map of the layout at its parent prefix.
C4_MissingLayoutFailsBuild ==
    bpOut # Undef =>
      IF MissingLayout(bpType, bpComps)
      THEN bpOut.thrown = "LayoutNotFound"
      ELSE /\ bpOut.thrown = None
           /\ \A k \in Routed(bpComps) :
                LET addr == AddressOf(bpType, bpComps[k].path)
                IN  NonTerminalPrefixes(addr) # {} =>
                      \A l \in LayoutsAt(bpType, bpComps, ParentPrefix(addr)) :
                         InRegion(bpOut.regions[l], OwnRegionName(addr), k)

C4_Witness ==
    /\ bpOut # Undef
    /\ bpType # FRAGMENT_CONTENTTYPE_NAME
    /\ Len(bpComps) = 2
    /\ bpComps[1] = Component("part", <<"/", "main", "/", "0">>)
    /\ bpComps[2] = Component("part", <<"/", "main", "/", "0", "/", "left", "/", "1">>)
    /\ bpOut.thrown = "LayoutNotFound"

\* C5: in a portal:fragment content a component at "/" that is no page
\* component is the one component, at slot 0, of the region "fragment" of
\* the tree, and a component at /r/i lies in region r of the layout at "/",
\* which is addressed as /fragment/0.
C5_FragmentRootInDefaultRegion ==
    (Built /\ bpType = FRAGMENT_CONTENTTYPE_NAME) =>
      \A k \in 1..Len(bpComps) :
        /\ (bpComps[k].path = RootPath /\ bpComps[k].type # "page") =>
             /\ DOMAIN bpOut.tree = {FRAGMENT_DEFAULT_REGION_NAME}
             /\ bpOut.tree[FRAGMENT_DEFAULT_REGION_NAME].components = <<k>>
        /\ (bpComps[k].path # RootPath /\ Len(bpComps[k].path) <= 5
               /\ \A j \in 2..Len(bpComps[k].path) : bpComps[k].path[j] = "/" => j = 3) =>
             \E l \in 1..Len(bpComps) :
                /\ bpComps[l].type = "layout"
                /\ bpComps[l].path = RootPath
                /\ InRegion(bpOut.regions[l], <<bpComps[k].path[2]>>, k)

C5_Witness ==
    /\ Built
    /\ bpType = FRAGMENT_CONTENTTYPE_NAME
    /\ Len(bpComps) = 2
    /\ bpComps[1] = Component("part", <<"/", "main", "/", "1">>)
    /\ bpComps[2] = Component("layout", RootPath)
    /\ bpOut.tree[FRAGMENT_DEFAULT_REGION_NAME].components = <<2>>
    /\ bpOut.regions[2][<<"main">>].components = <<1>>

---------------------------------------------------------------------------
(* 4.2 Generic Graph Fetcher, 4.3 Metadata Fetcher                         *)

Some(v) == [has |-> TRUE, val |-> v]
Nothing == [has |-> FALSE]
Null    == [null |-> TRUE]

\* what a call ends with: a value, or an exception
Return(v) == [ok |-> TRUE, val |-> v]
Throw(e)  == [ok |-> FALSE, err |-> e]

\* new Error(JSON.stringify({code, message})), an Error with any other
\* message, and a thrown string
JsonError(code, message) == [isError |-> TRUE, json |-> TRUE, code |-> code, message |-> message]
PlainError(message)      == [isError |-> TRUE, json |-> FALSE, message |-> message]
ThrownString(text)       == [isError |-> FALSE, json |-> FALSE, message |-> text]

\* fetchFromApi on the response the network gives.  resp.kind is
\*   "transport"  fetch rejects
\*   "status"     a response that is not ok
\*   "nonjson"    res.json() rejects
\*   "empty"      the body parses to a falsy value
\*   "json"       the body parses to resp.json
\* resp.reread tells whether res.text() still gives the text after
\* res.json() has read the body, or rejects
fetchFromApi(resp) ==
    CASE resp.kind = "transport" ->
            Throw(JsonError("API", <<"fetch failed">>))
      [] resp.kind = "status" ->
            Throw(JsonError(resp.status, <<"Data fetching failed">>))
      [] resp.kind = "nonjson" ->
            IF resp.reread
            THEN Throw(JsonError("500", <<"API call completed but with non-JSON data">>))
            ELSE Throw(PlainError(<<"body used already">>))
      [] resp.kind = "empty" ->
            IF resp.reread
            THEN Throw(JsonError("500", <<"API call completed but with unexpectedly empty data">>))
            ELSE Throw(PlainError(<<"body used already">>))
      [] OTHER -> Return(resp.json)

\* !body.query.trim()
IsBlank(text) == Trim(text) = <<>>

ErrorsMessage(n) ==
    <<"Server responded with">> \o Digits(n) \o <<"error(s), probably from guillotine - see log.">>

\* json.errors: absent, one object, or a list of n
ErrorCount(errors) == IF errors.single THEN 1 ELSE errors.n

\* the then and the catch, with the data of an answer that has errors
\* handed on next to the error
GuillotineResultOf_PartialData(r) ==
    IF r.ok
    THEN IF r.val.errors.present
         THEN IF r.val.data = Undef
              THEN [error |-> [code |-> "500",
                               message |-> ErrorsMessage(ErrorCount(r.val.errors))]]
              ELSE [error |-> [code |-> "500",
                               message |-> ErrorsMessage(ErrorCount(r.val.errors))],
                    data |-> r.val.data]
         ELSE r.val.data
    ELSE IF r.err.json
         THEN [error |-> [code |-> r.err.code, message |-> r.err.message]]
         ELSE [error |-> [code |-> "Client-side error", message |-> r.err.message]]

\* the then and the catch after fetchFromApi
GuillotineResultOf(r) ==
    IF r.ok
    THEN IF r.val.errors.present
         THEN [error |-> [code |-> "500",
                          message |-> ErrorsMessage(ErrorCount(r.val.errors))]]
         ELSE r.val.data
    ELSE IF r.err.json
         THEN [error |-> [code |-> r.err.code, message |-> r.err.message]]
         ELSE [error |-> [code |-> "Client-side error", message |-> r.err.message]]

\* fetchGuillotine: the GuillotineResult ({error}, json.data or undefined)
fetchGuillotine(body, resp) ==
    IF IsBlank(body.query)
    THEN [error |-> [code |-> "400", message |-> <<"Invalid or missing query">>]]
    ELSE GuillotineResultOf(fetchFromApi(resp))

\* whether the call goes out to the network at all
IssuesCall(body) == ~IsBlank(body.query)

HasError(r) == "error" \in DOMAIN r

ReadOfUndefined == PlainError(<<"Cannot read properties of undefined">>)

\* getMetaQuery(pageFragmentQuery()): a fixed query
MetaQuery == <<"query", "(", "$", "p", ":", "T", ")", "{", "guillotine", "{", "get", "}", "}">>

MetaResultOf(metaResult) ==
    IF metaResult = Undef THEN Throw(ReadOfUndefined)
    ELSE IF HasError(metaResult) THEN Return(metaResult)
    ELSE Return([meta |-> IF metaResult.guillotine = Undef THEN Undef
                          ELSE metaResult.guillotine.get])

fetchMetaData(xpContentPath, resp) ==
    MetaResultOf(fetchGuillotine([query |-> MetaQuery,
                                  variables |-> [k \in {VarP} |-> xpContentPath]], resp))

HasVariables(variables) == DOMAIN variables # {}

ContentResultOf(contentResults) ==
    IF contentResults = Undef THEN Throw(ReadOfUndefined)
    ELSE IF HasError(contentResults) THEN Return(contentResults)
    ELSE Return([contents |-> contentResults.values])

fetchContentData(query, variables, resp) ==
    ContentResultOf(fetchGuillotine(IF HasVariables(variables)
                                    THEN [query |-> query, variables |-> variables]
                                    ELSE [query |-> query],
                                    resp))

---------------------------------------------------------------------------
(* 4.6 Descriptor Collector                                                *)

\* getQueryAndVariables.  selectedQuery is Undef or [form, query, getVariables]:
\* form "string", "array" or "object"; query is a query description
\* [shape, params, frag], or its shape is "nonstring"; getVariables is
\* "none", "function" or "other"
getQueryAndVariables(path, selectedQuery) ==
    IF selectedQuery = Undef THEN Return(Undef)
    ELSE
    LET query == selectedQuery.query
        getVariables == IF selectedQuery.form = "string" THEN "none"
                        ELSE selectedQuery.getVariables
    IN  IF getVariables = "other"
        THEN Throw(PlainError(<<"getVariables should be a function">>))
        ELSE IF query.shape = "nonstring"
        THEN Throw(PlainError(<<"Query should be a string">>))
        ELSE IF query.shape = "empty" THEN Return(Undef)
        ELSE Return([query |-> QueryText(query.shape, query.params, query.frag),
                     variables |-> IF getVariables = "function"
                                   THEN VariablesFor(query.params, <<"resolved">>)
                                   ELSE [k \in {VarP} |-> path]])

---------------------------------------------------------------------------
(* utils.ts: what the request headers say                                  *)

IS_DEV_MODE == registry.devMode

PAGE_TEMPLATE_CONTENTTYPE_NAME == "portal:page-template"
PAGE_TEMPLATE_FOLDER == "portal:template-folder"

XP_REQUEST_TYPE == [COMPONENT |-> "component", TYPE |-> "type", PAGE |-> "page"]
RENDER_MODE == [INLINE |-> "inline", EDIT |-> "edit", PREVIEW |-> "preview",
                LIVE |-> "live", ADMIN |-> "admin", NEXT |-> "next"]
XP_COMPONENT_TYPE == [PART |-> "part", LAYOUT |-> "layout", TEXT |-> "text",
                      FRAGMENT |-> "fragment", PAGE |-> "page"]

\* ENUM[headerValue?.toUpperCase()]: the member the header names, if any
EnumValue(enum, headerValue) ==
    LET hits == {k \in DOMAIN enum : enum[k] = headerValue}
    IN  IF hits = {} THEN None ELSE enum[CHOOSE k \in hits : TRUE]

getXPRequestType(ctx) ==
    LET enumValue == EnumValue(XP_REQUEST_TYPE, ctx.headers.fromxp)
    IN  IF enumValue # None THEN enumValue ELSE XP_REQUEST_TYPE.PAGE

getRenderMode(ctx) ==
    LET enumValue == EnumValue(RENDER_MODE, ctx.headers.mode)
    IN  IF enumValue # None THEN enumValue ELSE RENDER_MODE.NEXT

\* the header's value, or "" if there is none
getXpBaseUrl(ctx) == ctx.headers.xpbaseurl

\* the header's value, or undefined (None)
getSingleComponentPath(ctx) == ctx.headers.componentPath

---------------------------------------------------------------------------
(* The registry, through its lookups                                       *)

\* a registered query: the string itself, [query, variables] or
\* {query, variables}
SelectedQuery(form, shape, params, getVariables) ==
    [form |-> form, query |-> [shape |-> shape, params |-> params, frag |-> FALSE],
     getVariables |-> getVariables]

\* the definitions of components/_mappings.ts: child-list has a query and a
\* processor, heading a view only, movie-details a query
ComponentDefinitions ==
    [x \in {"app:child-list", "app:heading", "app:movie-details", "app:main", "app:2-column"} |->
       CASE x = "app:child-list" ->
               [query |-> SelectedQuery("string", "guillotine", <<VarP>>, "none"),
                processor |-> TRUE, view |-> TRUE]
         [] x = "app:movie-details" ->
               [query |-> SelectedQuery("string", "guillotine", <<VarP>>, "none"),
                processor |-> FALSE, view |-> TRUE]
         [] OTHER -> [query |-> Undef, processor |-> FALSE, view |-> TRUE]]

\* ComponentRegistry.getByComponent(cmp): the definition registered for the
\* descriptor of the component, if any
getByComponent(cmp) ==
    IF cmp.descriptor \in DOMAIN ComponentDefinitions
    THEN ComponentDefinitions[cmp.descriptor] ELSE Undef

\* ComponentRegistry.getContentType(type), ComponentRegistry.getCommonQuery()
getContentType(type) == registry.contentType
getCommonQuery == registry.commonQuery

\* what getContentType may give for the resolved type
TypeDefinitions ==
    {Undef,
     [query |-> SelectedQuery("string", "guillotine", <<VarP>>, "none"),
      processor |-> TRUE, view |-> TRUE, catchAll |-> FALSE],
     [query |-> SelectedQuery("string", "bare", <<>>, "none"),
      processor |-> FALSE, view |-> FALSE, catchAll |-> FALSE],
     [query |-> Undef, processor |-> FALSE, view |-> TRUE, catchAll |-> TRUE],
     [query |-> SelectedQuery("object", "nonstring", <<>>, "none"),
      processor |-> FALSE, view |-> TRUE, catchAll |-> FALSE],
     [query |-> SelectedQuery("array", "guillotine", <<VarP>>, "other"),
      processor |-> FALSE, view |-> FALSE, catchAll |-> FALSE]}

CommonQueries == {Undef, SelectedQuery("array", "guillotine", <<VarP, VarR>>, "function")}

---------------------------------------------------------------------------
(* The components of the metadata                                          *)

\* a PageComponent: config is "none", "namespaced" (configAsJson under the
\* application's name) or "flat" (config); fragment is Undef or
\* [components |-> the nested list]; data and error are unset at first
PageComponent(type, path, descriptor, config, fragment) ==
    [type |-> type, path |-> path,
     page |-> IF type = "page" THEN [descriptor |-> descriptor] ELSE Undef,
     descriptor |-> descriptor, config |-> config, fragment |-> fragment,
     data |-> Nothing, error |-> Nothing]

processComponentConfig(cmp) ==
    IF cmp.descriptor # None /\ cmp.config = "namespaced"
    THEN [cmp EXCEPT !.config = "flat"]
    ELSE cmp

\* a reference to a component of the list: component top, or component
\* nested of the fragment that component top holds
Ref(top, nested) == [top |-> top, nested |-> nested]

\* descriptors.push({component, type, queryAndVariables}) if there is a query
Pushed(ref, cmpDef, qv) ==
    IF ~qv.ok THEN qv
    ELSE IF qv.val = Undef THEN Return(<<>>)
    ELSE Return(<<[component |-> ref, type |-> cmpDef, queryAndVariables |-> qv.val]>>)

DescriptorWith(cmpDef, ref, xpContentPath) ==
    IF cmpDef = Undef THEN Return(<<>>)
    ELSE Pushed(ref, cmpDef, getQueryAndVariables(xpContentPath, cmpDef.query))

\* the loop body of collectComponentDescriptors for a component that is no
\* fragment
DescriptorOf(cmp, ref, xpContentPath) ==
    DescriptorWith(getByComponent(cmp), ref, xpContentPath)

\* the descriptors of the rest followed by those of the component
Joined_RestFirst(own, rest) ==
    IF ~own.ok THEN own
    ELSE IF ~rest.ok THEN rest
    ELSE Return(rest.val \o own.val)

\* the descriptors of one component followed by those of the rest, unless
\* either walk threw
Joined(own, rest) ==
    IF ~own.ok THEN own
    ELSE IF ~rest.ok THEN rest
    ELSE Return(own.val \o rest.val)

\* collectComponentDescriptors from component k on; top = 0 on the list of
\* the metadata, else the fragment component whose nested list is walked
RECURSIVE CollectFrom(_, _, _, _)
CollectFrom(components, k, top, xpContentPath) ==
    IF k > Len(components) THEN Return(<<>>)
    ELSE Joined(IF XP_COMPONENT_TYPE.FRAGMENT # components[k].type
                THEN DescriptorOf(components[k], IF top = 0 THEN Ref(k, 0) ELSE Ref(top, k),
                                  xpContentPath)
                ELSE IF components[k].fragment = Undef THEN Throw(ReadOfUndefined)
                ELSE CollectFrom(components[k].fragment.components, 1, k, xpContentPath),
                CollectFrom(components, k + 1, top, xpContentPath))

collectComponentDescriptors(components, xpContentPath) ==
    CollectFrom(components, 1, 0, xpContentPath)

\* processComponentConfig on every component, the nested ones included
RECURSIVE ConfigsProcessed(_)
ConfigsProcessed(components) ==
    [k \in 1..Len(components) |->
       LET cmp == processComponentConfig(components[k])
       IN  IF cmp.fragment = Undef THEN cmp
           ELSE [cmp EXCEPT !.fragment =
                    [components |-> ConfigsProcessed(cmp.fragment.components)]]]

---------------------------------------------------------------------------
(* 4.7 Result Stitcher: the results the fetcher resolves with              *)

OrElse(opt, default) == IF opt.has THEN opt.val ELSE default

\* errorResponse with the code forgotten: always the default code
errorResponse_DefaultCode(code, message, requestType, renderMode, contentPath) ==
    [error |-> Some([code |-> "500", message |-> OrElse(message, <<"Unknown error">>)]),
     page |-> Null, common |-> Null, data |-> Null,
     meta |-> [type |-> "", requestType |-> requestType, renderMode |-> renderMode,
               path |-> OrElse(contentPath, <<>>),
               canRender |-> FALSE, catchAll |-> FALSE, requestedComponent |-> 0]]

\* errorResponse that leaves the request's context out of meta
errorResponse_NoContext(code, message, requestType, renderMode, contentPath) ==
    [error |-> Some([code |-> OrElse(code, "500"),
                     message |-> OrElse(message, <<"Unknown error">>)]),
     page |-> Null, common |-> Null, data |-> Null,
     meta |-> [type |-> "", requestType |-> XP_REQUEST_TYPE.PAGE,
               renderMode |-> RENDER_MODE.NEXT, path |-> <<>>,
               canRender |-> FALSE, catchAll |-> FALSE, requestedComponent |-> 0]]

\* code and message are optional: the defaults stand in for undefined
errorResponse(code, message, requestType, renderMode, contentPath) ==
    [error |-> Some([code |-> OrElse(code, "500"),
                     message |-> OrElse(message, <<"Unknown error">>)]),
     page |-> Null, common |-> Null, data |-> Null,
     meta |-> [type |-> "", requestType |-> requestType, renderMode |-> renderMode,
               path |-> OrElse(contentPath, <<>>),
               canRender |-> FALSE, catchAll |-> FALSE, requestedComponent |-> 0]]

\* a catch block that logs the exception and returns nothing
CatchBlock_NoReturn(e, requestType, renderMode, contentPath) == Undef

\* the catch block of the handler on the exception e
CatchBlock(e, requestType, renderMode, contentPath) ==
    IF e.json
    THEN errorResponse(Some(e.code), Some(e.message), requestType, renderMode, contentPath)
    ELSE errorResponse(Some("Local"), IF e.isError THEN Some(e.message) ELSE Nothing,
                       requestType, renderMode, contentPath)

\* components.find(cmp => cmp.path === requestedComponentPath): its index, 0
\* if there is none
FindByPath(components, path) ==
    LET hits == {k \in 1..Len(components) : components[k].path = path}
    IN  IF hits = {} THEN 0 ELSE CHOOSE k \in hits : \A m \in hits : k <= m

\* createMetaData that looks at the registered view only
createMetaData_ViewOnly(contentType, contentPath, requestType, renderMode, requestedComponentPath, pageCmp, components) ==
    LET typeDef == getContentType(contentType)
        view == typeDef # Undef /\ typeDef.view
    IN  [type |-> contentType, path |-> contentPath, requestType |-> requestType,
         renderMode |-> renderMode,
         canRender |-> view,
         catchAll |-> view /\ typeDef.catchAll,
         requestedComponent |-> IF requestedComponentPath # None
                                THEN FindByPath(components, requestedComponentPath)
                                ELSE 0]

createMetaData(contentType, contentPath, requestType, renderMode, requestedComponentPath, pageCmp, components) ==
    LET pageDesc == /\ pageCmp # Undef
                    /\ pageCmp.page # Undef
                    /\ pageCmp.page.descriptor # None
        typeDef == getContentType(contentType)
        view == typeDef # Undef /\ typeDef.view
        meta == [type |-> contentType, path |-> contentPath, requestType |-> requestType,
                 renderMode |-> renderMode, canRender |-> FALSE, catchAll |-> FALSE,
                 requestedComponent |-> IF requestedComponentPath # None
                                        THEN FindByPath(components, requestedComponentPath)
                                        ELSE 0]
    IN  IF view /\ ~typeDef.catchAll THEN [meta EXCEPT !.canRender = TRUE]
        ELSE IF pageDesc THEN [meta EXCEPT !.canRender = TRUE, !.catchAll = FALSE]
        ELSE IF view THEN [meta EXCEPT !.canRender = TRUE, !.catchAll = TRUE]
        ELSE meta

\* createPageData: Undef without a component list, else what buildPage gives
createPageData(contentType, components) ==
    IF ~components.has THEN Undef ELSE buildPage(contentType, components.val)

\* reason instanceof Error ? reason.message
\*   : typeof reason !== 'string' ? String(reason) : reason
ReasonString(reason) ==
    CASE reason.kind = "Error"  -> reason.message
      [] reason.kind = "string" -> reason.text
      [] OTHER                  -> <<"String(reason)">>

\* the loop body that hands an outcome to its component, with the reason of
\* a rejection handed over as data
Attach_AsData(cmp, datum) ==
    IF datum.status = "rejected"
    THEN [cmp EXCEPT !.data = Some(datum.reason)]
    ELSE [cmp EXCEPT !.data = Some(datum.value)]

Attach(cmp, datum) ==
    IF datum.status = "rejected"
    THEN [cmp EXCEPT !.error = Some(ReasonString(datum.reason))]
    ELSE [cmp EXCEPT !.data = Some(datum.value)]

\* allDescriptors[i].component.error = ... / .data = ...
AttachAt(components, ref, datum) ==
    IF ref.nested = 0
    THEN [components EXCEPT ![ref.top] = Attach(@, datum)]
    ELSE [components EXCEPT ![ref.top] =
            [@ EXCEPT !.fragment =
               [components |-> [@.components EXCEPT ![ref.nested] = Attach(@, datum)]]]]

\* for (let i = startFrom; i < datas.length; i++): i counts from 0
RECURSIVE Unwind(_, _, _, _)
Unwind(components, allDescriptors, datas, i) ==
    IF i >= Len(datas) THEN components
    ELSE Unwind(AttachAt(components, allDescriptors[i + 1].component, datas[i + 1]),
                allDescriptors, datas, i + 1)

\* item.status === 'fulfilled' ? item.value : item.reason
\* a variant that hands over nothing for a rejection
ValueOrReason_ValueOnly(item) == IF item.status = "fulfilled" THEN item.value ELSE Null

ValueOrReason(item) == IF item.status = "fulfilled" THEN item.value ELSE item.reason

---------------------------------------------------------------------------
(* 4.7 The handler that buildContentFetcher returns                        *)

Falsy(x) == x = Undef \/ x = Null

\* (components || []).find(cmp => cmp.type === PAGE)
FindPage(components) ==
    LET hits == {k \in 1..Len(components) : components[k].type = XP_COMPONENT_TYPE.PAGE}
    IN  IF hits = {} THEN 0 ELSE CHOOSE k \in hits : \A m \in hits : k <= m

\* the check of the type without regard to the dev mode
ForbiddenType_IgnoresDevMode(type, renderMode) ==
    /\ renderMode = RENDER_MODE.NEXT
    /\ type \in {FRAGMENT_CONTENTTYPE_NAME, PAGE_TEMPLATE_CONTENTTYPE_NAME, PAGE_TEMPLATE_FOLDER}

ForbiddenType(type, renderMode) ==
    /\ renderMode = RENDER_MODE.NEXT
    /\ ~IS_DEV_MODE
    /\ type \in {FRAGMENT_CONTENTTYPE_NAME, PAGE_TEMPLATE_CONTENTTYPE_NAME, PAGE_TEMPLATE_FOLDER}

Returns(res, l) == [returned |-> TRUE, result |-> res, loc |-> l]
Awaits(l)       == [returned |-> FALSE, loc |-> l]

\* the descriptor of the content type query or of the common query
TypeDescriptor(contentTypeDef, queryAndVars) ==
    [component |-> Undef, type |-> contentTypeDef, queryAndVariables |-> queryAndVars]

\* the handler at the second call: the combined query is there
SecondCall(l) ==
    IF IsBlank(l.query)
    THEN Returns(errorResponse(Some("400"), Some(<<"Missing or empty query override">>),
                               l.requestType, l.renderMode, l.contentPath), l)
    ELSE Awaits(l)

WithCombined(l, combined) ==
    [l EXCEPT !.query = combined.query, !.variables = combined.variables]

WithDescriptors(l, allDescriptors) ==
    WithCombined([l EXCEPT !.allDescriptors = allDescriptors],
                 combineMultipleQueries(allDescriptors))

\* the descriptors in the order they are pushed: content type, common,
\* components
Collected(l, comps1, contentTypeDef, contentQueryAndVars, commonQueryAndVars, componentDescriptors) ==
    IF ~contentQueryAndVars.ok
    THEN Returns(CatchBlock(contentQueryAndVars.err, l.requestType, l.renderMode,
                            l.contentPath), l)
    ELSE IF ~commonQueryAndVars.ok
    THEN Returns(CatchBlock(commonQueryAndVars.err, l.requestType, l.renderMode,
                            l.contentPath), l)
    ELSE IF ~componentDescriptors.ok
    THEN Returns(CatchBlock(componentDescriptors.err, l.requestType, l.renderMode,
                            l.contentPath), l)
    ELSE SecondCall(WithDescriptors(
            [l EXCEPT !.components = IF l.components.has
                                     THEN Some(ConfigsProcessed(comps1)) ELSE Nothing,
                      !.contentQueryAndVars = contentQueryAndVars.val # Undef,
                      !.commonQueryAndVars = commonQueryAndVars.val # Undef],
            (IF contentQueryAndVars.val # Undef
             THEN <<TypeDescriptor(contentTypeDef, contentQueryAndVars.val)>> ELSE <<>>)
            \o (IF commonQueryAndVars.val # Undef
                THEN <<TypeDescriptor(contentTypeDef, commonQueryAndVars.val)>> ELSE <<>>)
            \o componentDescriptors.val))

\* processComponentConfig on the page component, if there is one
PageProcessed(components) ==
    IF FindPage(components) = 0 THEN components
    ELSE [components EXCEPT ![FindPage(components)] = processComponentConfig(@)]

CollectWith(l, contentPath, comps1, contentTypeDef) ==
    Collected(l, comps1, contentTypeDef,
              getQueryAndVariables(contentPath,
                                   IF contentTypeDef = Undef THEN Undef
                                   ELSE contentTypeDef.query),
              getQueryAndVariables(contentPath, getCommonQuery),
              collectComponentDescriptors(comps1, contentPath))

\* from the content type on to the second call: the descriptors are
\* collected and combined; l holds type, components and contentPath
CollectAndCombine(l) ==
    CollectWith(l, OrElse(l.contentPath, <<>>), PageProcessed(OrElse(l.components, <<>>)),
                getContentType(l.type))

Failed(l, code, message) ==
    Returns(errorResponse(Some(code), Some(message), l.requestType, l.renderMode,
                          l.contentPath), l)

\* const {type, components, _path} = metaResult.meta; contentPath = _path
Known(l, meta) ==
    [l EXCEPT !.contentPath = Some(meta._path), !.type = meta.type,
              !.components = meta.components]

\* the checks on the metadata without the check of the type
Checked_NoTypeCheck(l, metaResult) ==
    IF HasError(metaResult)
    THEN Failed([l EXCEPT !.contentPath = Some(<<>>)],
                metaResult.error.code, metaResult.error.message)
    ELSE IF Falsy(metaResult.meta)
    THEN Failed([l EXCEPT !.contentPath = Some(<<>>)], "404",
                <<"No meta data found for content, most likely content does not exist">>)
    ELSE IF ForbiddenType(metaResult.meta.type, l.renderMode)
    THEN Failed(Known(l, metaResult.meta), "404",
                <<"Content type is not accessible in this mode">>)
    ELSE CollectAndCombine(Known(l, metaResult.meta))

\* the checks on the metadata
Checked(l, metaResult) ==
    IF HasError(metaResult)
    THEN Failed([l EXCEPT !.contentPath = Some(<<>>)],
                metaResult.error.code, metaResult.error.message)
    ELSE IF Falsy(metaResult.meta)
    THEN Failed([l EXCEPT !.contentPath = Some(<<>>)], "404",
                <<"No meta data found for content, most likely content does not exist">>)
    ELSE IF metaResult.meta.type = None
    THEN Failed(Known(l, metaResult.meta), "500",
                <<"Server responded with incomplete meta data: missing content 'type' attribute.">>)
    ELSE IF ForbiddenType(metaResult.meta.type, l.renderMode)
    THEN Failed(Known(l, metaResult.meta), "404",
                <<"Content type is not accessible in this mode">>)
    ELSE CollectAndCombine(Known(l, metaResult.meta))

AfterMetaResult(l, called) ==
    IF ~called.ok
    THEN Returns(CatchBlock(called.err, l.requestType, l.renderMode, l.contentPath), l)
    ELSE Checked(l, called.val)

\* from the answer to the metadata call on to the return or the second call
AfterMetaData(l, resp) ==
    AfterMetaResult(l, fetchMetaData(<<"$", "{", "site", "}", "/">>
                                        \o l.siteRelativeContentPath, resp))

NO_PROPS_PROCESSOR(props) == IF props = Undef THEN [empty |-> TRUE] ELSE props

\* the promise of the processor of descriptor k right after map() has
\* started it: rejected at once if there are no contents to read, else
\* pending with the result slot it was handed
RECURSIVE StartProcessors(_, _, _, _)
StartProcessors(componentDescriptors, contentResults, k, dataCounter) ==
    IF k > Len(componentDescriptors) THEN <<>>
    ELSE
    LET desc == componentDescriptors[k]
        custom == desc.type # Undef /\ desc.type.processor
        reads == desc.queryAndVariables # Undef
        contents == contentResults.contents
        data == IF reads /\ dataCounter + 1 <= Len(contents)
                THEN contents[dataCounter + 1] ELSE Undef
        next == IF reads THEN dataCounter + 1 ELSE dataCounter
    IN  IF reads /\ HasError(contentResults)
        THEN <<[status |-> "rejected",
                reason |-> [kind |-> "Error", message |-> ReadOfUndefined.message]]>>
             \o StartProcessors(componentDescriptors, contentResults, k + 1, next)
        ELSE <<[status |-> "pending", props |-> data, custom |-> custom]>>
             \o StartProcessors(componentDescriptors, contentResults, k + 1, next)

\* a variant whose slots are counted from the second value on
applyProcessors_SlotAhead(componentDescriptors, contentResults) ==
    StartProcessors(componentDescriptors, contentResults, 1, 1)

applyProcessors(componentDescriptors, contentResults) ==
    StartProcessors(componentDescriptors, contentResults, 1, 0)

AfterContentResult(l, called) ==
    IF ~called.ok
    THEN Returns(CatchBlock(called.err, l.requestType, l.renderMode, l.contentPath), l)
    ELSE Awaits([l EXCEPT !.contentResults = called.val])

\* from the answer to the content call on to the start of the processors
AfterContentData(l, resp) ==
    AfterContentResult(l, fetchContentData(l.query, l.variables, resp))

\* the components once every outcome from startFrom on is handed over
Unwound(l, datas) ==
    IF l.components.has
    THEN Some(Unwind(l.components.val, l.allDescriptors, datas,
                     (IF l.contentQueryAndVars THEN 1 ELSE 0)
                        + (IF l.commonQueryAndVars THEN 1 ELSE 0)))
    ELSE Nothing

\* the return, or the catch if buildPage threw
PageReturned(l, datas, page) ==
    IF page # Undef /\ page.thrown # None
    THEN Returns(CatchBlock(ThrownString(<<page.thrown>>), l.requestType, l.renderMode,
                            l.contentPath), l)
    ELSE Returns([error |-> Nothing,
                  data |-> IF l.contentQueryAndVars THEN ValueOrReason(datas[1]) ELSE Null,
                  common |-> IF l.commonQueryAndVars
                             THEN ValueOrReason(datas[IF l.contentQueryAndVars THEN 2 ELSE 1])
                             ELSE Null,
                  meta |-> createMetaData(l.type, l.siteRelativeContentPath, l.requestType,
                                          l.renderMode, l.requestedComponentPath,
                                          IF page = Undef THEN Undef ELSE page.page,
                                          OrElse(l.components, <<>>)),
                  page |-> IF page = Undef THEN Null ELSE page], l)

PageCreated(l, datas) == PageReturned(l, datas, createPageData(l.type, l.components))

\* from the settled outcomes on to the return
AfterProcessors(l, datas) == PageCreated([l EXCEPT !.components = Unwound(l, datas)], datas)

---------------------------------------------------------------------------
(* The requests, registries and responses the fetcher is exercised with    *)

Headers ==
    {[fromxp |-> fx, mode |-> md,
      xpbaseurl |-> IF fx = None THEN <<>> ELSE <<"/", "x", "p">>,
      componentPath |-> IF fx = "component" THEN <<"/", "main", "/", "0">> ELSE None] :
        fx \in {None, "component"}, md \in {None, "edit"}}
    \union {[fromxp |-> None, mode |-> "preview", xpbaseurl |-> <<>>, componentPath |-> None]}

PathArguments ==
    {AsArgument(<<<<"a">>, <<"b">>>>, "array"), AsArgument(<<<<"a">>>>, "string"),
     AsArgument(<<>>, "undefined"), AsArgument(<<>>, "number")}

Registries ==
    [devMode : BOOLEAN, contentType : TypeDefinitions, commonQuery : CommonQueries]

NoErrors == [present |-> FALSE]
Errors(single, n) == [present |-> TRUE, single |-> single, n |-> n]
JsonBody(errors, data) == [kind |-> "json", json |-> [errors |-> errors, data |-> data]]

\* the answers that are no data: no connection, a status that is not ok, a
\* body that is no JSON or parses to nothing, errors (one object or a list),
\* a body without data
FailureResponses ==
    {[kind |-> "transport"], [kind |-> "status", status |-> "503"]}
    \union {[kind |-> k, reread |-> r] : k \in {"nonjson", "empty"}, r \in BOOLEAN}
    \union {JsonBody(Errors(TRUE, 1), Undef), JsonBody(Errors(FALSE, 2), Undef),
            JsonBody(NoErrors, Undef)}

Part(descriptor, path, config) == PageComponent("part", path, descriptor, config, Undef)

MainPage(descriptor) == PageComponent("page", RootPath, descriptor, "none", Undef)

ComponentScenarios ==
    {Nothing,
     Some(<<MainPage("app:main"),
            Part("app:child-list", <<"/", "main", "/", "0">>, "namespaced"),
            Part("app:child-list", <<"/", "main", "/", "1">>, "none"),
            Part("app:child-list", <<"/", "main", "/", "2">>, "none")>>),
     Some(<<MainPage(None), Part("app:heading", <<"/", "main", "/", "0">>, "none")>>),
     Some(<<MainPage("app:main"),
            Part("app:child-list", <<"/", "main", "/", "0", "/", "left", "/", "1">>, "none")>>),
     Some(<<MainPage("app:main"),
            PageComponent("fragment", <<"/", "main", "/", "0">>, None, "none",
                          [components |-> <<Part("app:child-list", RootPath, "flat")>>]),
            Part("app:movie-details", <<"/", "main", "/", "1">>, "none")>>),
     Some(<<MainPage("app:main"),
            PageComponent("fragment", <<"/", "main", "/", "0">>, None, "none", Undef)>>),
     Some(<<Part("app:child-list", RootPath, "none")>>),
     Some(<<MainPage("app:main"),
            Part("app:movie-details", <<"/", "main", "/", "0">>, "none"),
            PageComponent("fragment", <<"/", "main", "/", "1">>, None, "none",
                          [components |->
                             <<PageComponent("layout", RootPath, "app:2-column", "none", Undef),
                               Part("app:child-list", <<"/", "left", "/", "0">>, "none"),
                               Part("app:movie-details", <<"/", "left", "/", "1">>, "none")>>]),
            Part("app:movie-details", <<"/", "main", "/", "2">>, "none")>>)}

MetaData ==
    {[type |-> t, _path |-> <<"/", "s", "/", "a">>, components |-> cs] :
        t \in {FRAGMENT_CONTENTTYPE_NAME, "app:person"}, cs \in ComponentScenarios}
    \union {[type |-> t, _path |-> <<"/", "s", "/", "a">>, components |-> Nothing] :
               t \in {None, PAGE_TEMPLATE_CONTENTTYPE_NAME, PAGE_TEMPLATE_FOLDER}}

MetaResponses ==
    FailureResponses
    \union {JsonBody(NoErrors, [guillotine |-> Undef]),
            JsonBody(NoErrors, [guillotine |-> [get |-> Null]])}
    \union {JsonBody(NoErrors, [guillotine |-> [get |-> m]]) : m \in MetaData}

\* the values the backend gives for a combined query: one per aliased
\* block, in the order of the blocks
RECURSIVE BackendValues(_, _, _)
BackendValues(query, index, count) ==
    IF index >= count THEN <<>>
    ELSE (IF Occurrences(query, BlockHead(index)) # {}
          THEN <<[alias |-> AliasOf(index)]>> ELSE <<>>)
         \o BackendValues(query, index + 1, count)

ContentResponses(l) ==
    LET values == BackendValues(l.query, 0, Len(l.allDescriptors))
    IN  FailureResponses
        \union (IF values = <<>> THEN {} ELSE {JsonBody(NoErrors, [values |-> values])})

\* what a registered processor may reject with
Reasons ==
    {[kind |-> "Error", message |-> <<"processor failed">>],
     [kind |-> "string", text |-> <<"no such item">>],
     [kind |-> "other"]}

FetchInit ==
    /\ pc = "start"
    /\ context \in [contentPathOrArray : PathArguments, headers : Headers]
    /\ registry \in Registries
    /\ xpBaseUrl = <<>>
    /\ metaResp = Undef
    /\ contentResp = Undef
    /\ calls = [meta |-> 0, content |-> 0]
    /\ loc = Undef
    /\ outcomes = <<>>
    /\ result = Undef
    /\ PathIdle
    /\ CombIdle
    /\ PageIdle
    /\ TwoIdle
    /\ ErrIdle

\* the handler up to the first call: the base URL is set, the path is
\* normalized, and the metadata call goes out
Start ==
    /\ pc = "start"
    /\ xpBaseUrl' = getXpBaseUrl(context)
    /\ LET requestType == getXPRequestType(context)
           renderMode == getRenderMode(context)
           clean == getCleanContentPathArrayOrThrow400(context.contentPathOrArray)
       IN  IF ~clean.ok
           THEN /\ result' = CatchBlock(JsonError(clean.code, <<"Unexpected target content _path">>),
                                        requestType, renderMode, Nothing)
                /\ pc' = "done"
                /\ UNCHANGED <<loc, calls>>
           ELSE /\ loc' = [requestType |-> requestType, renderMode |-> renderMode,
                           siteRelativeContentPath |-> clean.val,
                           requestedComponentPath |->
                               IF requestType = XP_REQUEST_TYPE.COMPONENT
                               THEN getSingleComponentPath(context) ELSE None,
                           contentPath |-> Nothing, type |-> None, components |-> Nothing,
                           allDescriptors |-> <<>>, contentQueryAndVars |-> FALSE,
                           commonQueryAndVars |-> FALSE, query |-> <<>>,
                           variables |-> EmptyMap, contentResults |-> Undef]
                /\ calls' = [calls EXCEPT !.meta = @ + 1]
                /\ pc' = "awaitMeta"
                /\ UNCHANGED result
    /\ UNCHANGED <<context, registry, metaResp, contentResp, outcomes, notFetch>>

\* the metadata call is answered: the handler runs on to a return or to the
\* content call
MetaResponds ==
    /\ pc = "awaitMeta"
    /\ \E resp \in MetaResponses :
         \E after \in {AfterMetaData(loc, resp)} :
             /\ metaResp' = resp
             /\ loc' = after.loc
             /\ IF after.returned
                THEN /\ result' = after.result
                     /\ pc' = "done"
                     /\ UNCHANGED calls
                ELSE /\ calls' = [calls EXCEPT !.content = @ + 1]
                     /\ pc' = "awaitContent"
                     /\ UNCHANGED result
    /\ UNCHANGED <<context, registry, xpBaseUrl, contentResp, outcomes, notFetch>>

\* the content call is answered: every processor is started
ContentResponds ==
    /\ pc = "awaitContent"
    /\ \E resp \in ContentResponses(loc) :
         \E after \in {AfterContentData(loc, resp)} :
             /\ contentResp' = resp
             /\ loc' = after.loc
             /\ IF after.returned
                THEN /\ result' = after.result
                     /\ pc' = "done"
                     /\ UNCHANGED outcomes
                ELSE /\ outcomes' = applyProcessors(loc.allDescriptors, after.loc.contentResults)
                     /\ pc' = "awaitProcessors"
                     /\ UNCHANGED result
    /\ UNCHANGED <<context, registry, xpBaseUrl, metaResp, calls, notFetch>>

ProcessorFulfils(i) ==
    /\ pc = "awaitProcessors"
    /\ outcomes[i].status = "pending"
    /\ outcomes' = [outcomes EXCEPT ![i] =
                      [status |-> "fulfilled",
                       value |-> IF @.custom THEN [processed |-> @.props]
                                 ELSE NO_PROPS_PROCESSOR(@.props)]]
    /\ UNCHANGED <<pc, context, registry, xpBaseUrl, metaResp, contentResp, calls, loc,
                   result, notFetch>>

ProcessorRejects(i) ==
    /\ pc = "awaitProcessors"
    /\ outcomes[i].status = "pending"
    /\ outcomes[i].custom
    /\ \E reason \in Reasons :
         outcomes' = [outcomes EXCEPT ![i] = [status |-> "rejected", reason |-> reason]]
    /\ UNCHANGED <<pc, context, registry, xpBaseUrl, metaResp, contentResp, calls, loc,
                   result, notFetch>>

\* Promise.allSettled has resolved: the outcomes are unwound, the page is
\* built and the handler returns
Stitch ==
    /\ pc = "awaitProcessors"
    /\ \A i \in 1..Len(outcomes) : outcomes[i].status # "pending"
    /\ \E after \in {AfterProcessors(loc, outcomes)} :
           /\ loc' = after.loc
           /\ result' = after.result
    /\ pc' = "done"
    /\ UNCHANGED <<context, registry, xpBaseUrl, metaResp, contentResp, calls, outcomes,
                   notFetch>>

FetchNext ==
    \/ Start
    \/ MetaResponds
    \/ ContentResponds
    \/ \E i \in 1..Len(outcomes) : ProcessorFulfils(i)
    \/ \E i \in 1..Len(outcomes) : ProcessorRejects(i)
    \/ Stitch

SpecFetch == FetchInit /\ [][FetchNext]_vars

Resolved == pc = "done" /\ result # Undef

\* the request went through the processors and the unwinding
Stitched == pc = "done" /\ loc # Undef /\ loc.contentResults # Undef

\* the component a reference stands for
ComponentAt(components, ref) ==
    IF ref.nested = 0 THEN components[ref.top]
    ELSE components[ref.top].fragment.components[ref.nested]

StartFrom == (IF loc.contentQueryAndVars THEN 1 ELSE 0) + (IF loc.commonQueryAndVars THEN 1 ELSE 0)

NoMetaDataFound ==
    /\ metaResp # Undef
    /\ metaResp.kind = "json"
    /\ ~metaResp.json.errors.present
    /\ metaResp.json.data # Undef
    /\ \/ metaResp.json.data.guillotine = Undef
       \/ metaResp.json.data.guillotine.get = Null

\* C7: when the metadata call is answered without errors but with no
\* metadata for the path, the request has resolved with error code '404',
\* page, common and data null and meta.canRender false, and no content call
\* is ever issued.
C7_NoMetaDataGives404 ==
    NoMetaDataFound =>
      /\ Resolved
      /\ result.error.has
      /\ result.error.val.code = "404"
      /\ result.page = Null
      /\ result.common = Null
      /\ result.data = Null
      /\ result.meta.canRender = FALSE
      /\ calls.content = 0
      /\ contentResp = Undef

C7_Witness ==
    /\ metaResp = JsonBody(NoErrors, [guillotine |-> [get |-> Null]])
    /\ Resolved
    /\ result.error.val.code = "404"
    /\ calls = [meta |-> 1, content |-> 0]

\* what the registry and the metadata say about rendering
RegisteredView == registry.contentType # Undef /\ registry.contentType.view
CatchAllView   == RegisteredView /\ registry.contentType.catchAll
PageDescriptor ==
    /\ loc.components.has
    /\ \E k \in 1..Len(loc.components.val) :
          /\ loc.components.val[k].type = "page"
          /\ loc.components.val[k].path = RootPath
          /\ loc.components.val[k].descriptor # None

\* C8: in a result without error, meta.canRender is true exactly when the
\* content type has a registered view (catch-all or not) or the page
\* component has a descriptor, so it is false when there is neither; and
\* meta.catchAll is true exactly when the registered view is the catch-all
\* and the page has no descriptor.
C8_CanRenderAndCatchAll ==
    (Resolved /\ ~result.error.has) =>
      /\ result.meta.canRender = (RegisteredView \/ PageDescriptor)
      /\ result.meta.catchAll = (CatchAllView /\ ~PageDescriptor)

C8_Witness ==
    /\ Resolved
    /\ ~result.error.has
    /\ CatchAllView
    /\ PageDescriptor
    /\ result.meta.canRender = TRUE
    /\ result.meta.catchAll = FALSE

\* the path known when the request resolved: _path of the metadata, if any
KnownPath ==
    IF /\ metaResp # Undef
       /\ metaResp.kind = "json"
       /\ ~metaResp.json.errors.present
       /\ metaResp.json.data # Undef
       /\ metaResp.json.data.guillotine # Undef
       /\ metaResp.json.data.guillotine.get # Null
    THEN metaResp.json.data.guillotine.get._path
    ELSE <<>>

MetaDataReceived == KnownPath # <<>>
ReceivedMeta == metaResp.json.data.guillotine.get

\* the top-level failures
InvalidPathInput == context.contentPathOrArray.kind = "number"
MetaCallFailed == metaResp \in FailureResponses
MissingType == MetaDataReceived /\ ReceivedMeta.type = None
Forbidden ==
    /\ MetaDataReceived
    /\ ReceivedMeta.type \in {FRAGMENT_CONTENTTYPE_NAME, PAGE_TEMPLATE_CONTENTTYPE_NAME,
                              PAGE_TEMPLATE_FOLDER}
    /\ context.headers.mode = None
    /\ ~registry.devMode
MalformedContract ==
    /\ MetaDataReceived
    /\ registry.contentType # Undef
    /\ registry.contentType.query # Undef
    /\ \/ registry.contentType.query.query.shape = "nonstring"
       \/ registry.contentType.query.getVariables = "other"
Inconsistent ==
    /\ MetaDataReceived
    /\ ReceivedMeta.components.has
    /\ MissingLayout(ReceivedMeta.type, ReceivedMeta.components.val)

TopLevelFailure ==
    \/ InvalidPathInput
    \/ MetaCallFailed
    \/ NoMetaDataFound
    \/ MissingType
    \/ Forbidden
    \/ MalformedContract
    \/ Inconsistent

\* C10: a request that has resolved after a top-level failure (invalid path
\* input, failed metadata call, missing metadata, missing type, forbidden
\* type, malformed registry contract, missing layout) carries an error; and
\* every result with an error has a code and a message, data, common and
\* page null, and a meta with the request type and the render mode of the
\* request, the path known so far and canRender false.
C10_FailuresGiveCompleteResult ==
    Resolved =>
      /\ TopLevelFailure => result.error.has
      /\ result.error.has =>
           /\ DOMAIN result.error.val = {"code", "message"}
           /\ result.data = Null
           /\ result.common = Null
           /\ result.page = Null
           /\ result.meta # Null
           /\ result.meta.requestType = getXPRequestType(context)
           /\ result.meta.renderMode = getRenderMode(context)
           /\ result.meta.path = KnownPath
           /\ result.meta.canRender = FALSE

C10_Witness ==
    /\ Resolved
    /\ Inconsistent
    /\ ~Forbidden
    /\ context.headers.fromxp = "component"
    /\ context.headers.mode = "edit"
    /\ result.error = Some([code |-> "Local", message |-> <<"Unknown error">>])
    /\ result.meta.requestType = "component"
    /\ result.meta.renderMode = "edit"
    /\ result.meta.path = <<"/", "s", "/", "a">>
    /\ result.page = Null

---------------------------------------------------------------------------
(* The second call                                                         *)

\* the descriptors were collected and combined
QueryCombined == loc # Undef /\ loc.query # <<>>

\* the combined query holds no aliased block at all
NoAliasedBody ==
    /\ QueryCombined
    /\ BackendValues(loc.query, 0, Len(loc.allDescriptors)) = <<>>

\* C11: when the descriptors of a resolved content type give a combined
\* query without any aliased body (no descriptor, or none whose query has
\* the expected shape), the request has resolved with error code '400' and
\* no content call is issued.
C11_MissingQueryGives400 ==
    NoAliasedBody =>
      /\ Resolved
      /\ result.error.has
      /\ result.error.val.code = "400"
      /\ calls.content = 0

\* C12: in every execution of a request at most one metadata call and at
\* most one content call are issued; the content call is issued only after
\* the metadata call was answered, and never when that answer was a
\* failure, held no metadata, metadata without a type, or a type that is
\* forbidden in the render mode of the request.
C12_CallsSequentialAndGuarded ==
    /\ calls.meta <= 1
    /\ calls.content <= 1
    /\ calls.content = 1 =>
          /\ calls.meta = 1
          /\ metaResp # Undef
          /\ pc \in {"awaitContent", "awaitProcessors", "done"}
          /\ ~MetaCallFailed
          /\ ~NoMetaDataFound
          /\ ~MissingType
          /\ ~Forbidden
    /\ pc \in {"awaitContent", "awaitProcessors"} => calls.content = 1

C12_Witness ==
    /\ calls = [meta |-> 1, content |-> 1]
    /\ Resolved
    /\ ~result.error.has
    /\ contentResp # Undef
    /\ ReceivedMeta.type = FRAGMENT_CONTENTTYPE_NAME

\* the answers to the two calls so far
Answers == {metaResp, contentResp} \ {Undef}

\* the answers that are a failure of the call itself
CallFailures == {resp \in Answers : resp.kind \in {"transport", "status", "nonjson", "empty"}}

\* the code each failure of a call is to be reported with
ReportedCode(resp) ==
    CASE resp.kind = "transport" -> "API"
      [] resp.kind = "status" -> resp.status
      [] OTHER -> "500"

\* C13: every failure of a graph call is reported by fetchGuillotine as a
\* {code, message} pair: code "API" for a transport failure, the status for
\* a status that is not ok, 500 for a body that is no JSON, and 500 for a
\* body that parses to nothing.
C13_FailuresReportedAsCodeAndMessage ==
    \A resp \in CallFailures :
        /\ HasError(fetchGuillotine([query |-> MetaQuery], resp))
        /\ DOMAIN fetchGuillotine([query |-> MetaQuery], resp).error = {"code", "message"}
        /\ fetchGuillotine([query |-> MetaQuery], resp).error.code = ReportedCode(resp)

---------------------------------------------------------------------------
(* Two requests in one process.  The handlers interleave at their awaits;  *)
(* xpBaseUrl of utils.ts is the one module-level variable they share.      *)

\* String.prototype.replace(/pat/, rep) without the g flag: the first
\* occurrence only
ReplaceAt(s, i, n, rep) == SubSeq(s, 1, i - 1) \o rep \o SubSeq(s, i + n, Len(s))

ReplaceFirst(s, pat, rep) ==
    IF Occurrences(s, pat) = {} THEN s
    ELSE ReplaceAt(s, CHOOSE i \in Occurrences(s, pat) :
                          \A j \in Occurrences(s, pat) : i <= j,
                   Len(pat), rep)

Edit == <<"/", "e", "d", "i", "t", "/">>
Inline == <<"/", "i", "n", "l", "i", "n", "e", "/">>

\* (base || '/').replace(/\/edit\//, '/inline/') + resourcePath
UrlFrom(base, resourcePath) ==
    ReplaceFirst(IF base = <<>> THEN <<"/">> ELSE base, Edit, Inline) \o resourcePath

getUrl(resourcePath) == UrlFrom(xpBaseUrl, resourcePath)

LogoPath == <<"images/xp-shield.svg">>

RequestIds == {"A", "B"}

\* the base URLs the proxy sends: none, a preview site, a site in edit mode
BaseUrls ==
    {<<>>, <<"/", "p", "/">>, <<"/", "x", "p">> \o Edit \o <<"s", "/">>}

TwoContexts ==
    {[contentPathOrArray |-> AsArgument(<<<<"a">>>>, "string"),
      headers |-> [fromxp |-> IF u = <<>> THEN None ELSE "type",
                   mode |-> IF u = <<>> THEN None
                            ELSE IF Occurrences(u, Edit) # {} THEN "edit" ELSE "preview",
                   xpbaseurl |-> u, componentPath |-> None]] : u \in BaseUrls}

TwoRegistry ==
    [devMode |-> FALSE,
     contentType |-> [query |-> SelectedQuery("string", "guillotine", <<VarP>>, "none"),
                      processor |-> TRUE, view |-> TRUE, catchAll |-> FALSE],
     commonQuery |-> Undef]

TwoMetaResponses ==
    {[kind |-> "transport"],
     JsonBody(NoErrors, [guillotine |-> [get |->
        [type |-> "app:person", _path |-> <<"/", "s", "/", "a">>, components |-> Nothing]]])}

TwoContentResponses(l) ==
    {resp \in ContentResponses(l) : resp.kind \in {"status", "json"}}

\* the handler from its entry to the first await
Entered(ctx, clean) ==
    IF ~clean.ok
    THEN Returns(CatchBlock(JsonError(clean.code, <<"Unexpected target content _path">>),
                            getXPRequestType(ctx), getRenderMode(ctx), Nothing), Undef)
    ELSE Awaits([requestType |-> getXPRequestType(ctx), renderMode |-> getRenderMode(ctx),
                 siteRelativeContentPath |-> clean.val,
                 requestedComponentPath |->
                     IF getXPRequestType(ctx) = XP_REQUEST_TYPE.COMPONENT
                     THEN getSingleComponentPath(ctx) ELSE None,
                 contentPath |-> Nothing, type |-> None, components |-> Nothing,
                 allDescriptors |-> <<>>, contentQueryAndVars |-> FALSE,
                 commonQueryAndVars |-> FALSE, query |-> <<>>,
                 variables |-> EmptyMap, contentResults |-> Undef])

\* MyApp of pages/_app.tsx: whether the header with the logo is rendered
RendersHeader(pageProps) ==
    IF pageProps.meta.requestType = XP_REQUEST_TYPE.COMPONENT THEN FALSE
    ELSE ~(\/ ~pageProps.meta.canRender
           \/ (pageProps.meta.catchAll /\ pageProps.meta.renderMode = RENDER_MODE.EDIT))

Request(ctx) ==
    [pc |-> "start", context |-> ctx, loc |-> Undef, outcomes |-> <<>>, result |-> Undef,
     logoUrl |-> Nothing]

\* the handler of request r goes on from an await: it has returned, or it
\* awaits the next thing
Continued(r, after, awaiting, started) ==
    [requests EXCEPT ![r] =
        IF after.returned
        THEN [@ EXCEPT !.pc = "done", !.loc = after.loc, !.result = after.result]
        ELSE [@ EXCEPT !.pc = awaiting, !.loc = after.loc, !.outcomes = started]]

TwoInit ==
    /\ requests \in [RequestIds -> {Request(ctx) : ctx \in TwoContexts}]
    /\ registry = TwoRegistry
    /\ xpBaseUrl = <<>>
    /\ pc = "idle"
    /\ context = Undef
    /\ metaResp = Undef
    /\ contentResp = Undef
    /\ calls = [meta |-> 0, content |-> 0]
    /\ loc = Undef
    /\ outcomes = <<>>
    /\ result = Undef
    /\ PathIdle
    /\ CombIdle
    /\ PageIdle
    /\ ErrIdle

\* request r enters the handler: setXpBaseUrl, then on to the metadata call
Enter(r) ==
    /\ requests[r].pc = "start"
    /\ xpBaseUrl' = getXpBaseUrl(requests[r].context)
    /\ requests' = Continued(r, Entered(requests[r].context,
                                        getCleanContentPathArrayOrThrow400(
                                            requests[r].context.contentPathOrArray)),
                             "awaitMeta", <<>>)
    /\ UNCHANGED <<pc, context, registry, metaResp, contentResp, calls, loc, outcomes,
                   result, pathVars, combVars, pageVars, errVars>>

MetaArrives(r) ==
    /\ requests[r].pc = "awaitMeta"
    /\ \E resp \in TwoMetaResponses :
          requests' = Continued(r, AfterMetaData(requests[r].loc, resp), "awaitContent", <<>>)
    /\ UNCHANGED <<xpBaseUrl, pc, context, registry, metaResp, contentResp, calls, loc,
                   outcomes, result, pathVars, combVars, pageVars, errVars>>

ContentArrives(r) ==
    /\ requests[r].pc = "awaitContent"
    /\ \E resp \in TwoContentResponses(requests[r].loc) :
        \E after \in {AfterContentData(requests[r].loc, resp)} :
          requests' = Continued(r, after, "awaitProcessors",
                                IF after.returned THEN <<>>
                                ELSE applyProcessors(requests[r].loc.allDescriptors,
                                                     after.loc.contentResults))
    /\ UNCHANGED <<xpBaseUrl, pc, context, registry, metaResp, contentResp, calls, loc,
                   outcomes, result, pathVars, combVars, pageVars, errVars>>

ProcessorSettles(r, i) ==
    /\ requests[r].pc = "awaitProcessors"
    /\ requests[r].outcomes[i].status = "pending"
    /\ \E settled \in {[status |-> "fulfilled",
                         value |-> [processed |-> requests[r].outcomes[i].props]],
                        [status |-> "rejected", reason |-> [kind |-> "other"]]} :
          requests' = [requests EXCEPT ![r].outcomes[i] = settled]
    /\ UNCHANGED <<xpBaseUrl, pc, context, registry, metaResp, contentResp, calls, loc,
                   outcomes, result, pathVars, combVars, pageVars, errVars>>

Stitches(r) ==
    /\ requests[r].pc = "awaitProcessors"
    /\ \A i \in 1..Len(requests[r].outcomes) : requests[r].outcomes[i].status # "pending"
    /\ requests' = Continued(r, AfterProcessors(requests[r].loc, requests[r].outcomes),
                             "done", requests[r].outcomes)
    /\ UNCHANGED <<xpBaseUrl, pc, context, registry, metaResp, contentResp, calls, loc,
                   outcomes, result, pathVars, combVars, pageVars, errVars>>

\* the page of request r is rendered from its result: MyApp reads getUrl
\* for the logo of the header
Renders(r) ==
    /\ requests[r].pc = "done"
    /\ requests' = [requests EXCEPT
                      ![r].pc = "rendered",
                      ![r].logoUrl = IF RendersHeader(requests[r].result)
                                     THEN Some(getUrl(LogoPath)) ELSE Nothing]
    /\ UNCHANGED <<xpBaseUrl, pc, context, registry, metaResp, contentResp, calls, loc,
                   outcomes, result, pathVars, combVars, pageVars, errVars>>

TwoNext ==
    \/ \E r \in RequestIds : Enter(r)
    \/ \E r \in RequestIds : MetaArrives(r)
    \/ \E r \in RequestIds : ContentArrives(r)
    \/ \E r \in RequestIds : \E i \in 1..Len(requests[r].outcomes) : ProcessorSettles(r, i)
    \/ \E r \in RequestIds : Stitches(r)
    \/ \E r \in RequestIds : Renders(r)

SpecTwo == TwoInit /\ [][TwoNext]_vars

\* C14: no state written for one request is read for the other: the URL
\* that getUrl gives while the page of a request is rendered is built from
\* the base URL of that request's own context, also when another request
\* with another base URL has entered the handler in between.
C14_BaseUrlIsTheRequestsOwn ==
    \A r \in RequestIds :
        (requests[r].pc = "rendered" /\ requests[r].logoUrl.has) =>
            requests[r].logoUrl.val
               = UrlFrom(getXpBaseUrl(requests[r].context), LogoPath)

---------------------------------------------------------------------------
(* The combiner and the processors on queries that do not match            *)

\* descriptor i carries a query that has not the expected shape
Unmatched(d) == d.queryAndVariables # Undef /\ ~Matching(d)

\* C15: a descriptor whose query does not match the expected shape gives no
\* aliased block and no entry of the merged variables; the combined output
\* is the one the list gives with that descriptor carrying no query.
C15_UnmatchedQueryContributesNothing ==
    cqOut # Undef =>
      \A i \in 1..Len(cqDescs) :
        Unmatched(cqDescs[i]) =>
          /\ Occurrences(cqOut.query, BlockHead(i - 1)) = {}
          /\ \A key \in DOMAIN cqOut.variables :
                ~StartsWith(key, ALIAS_PREFIX \o Digits(i - 1) \o <<"_">>)
          /\ cqOut = combineMultipleQueries([cqDescs EXCEPT ![i] = NoQueryDescriptor])

\* the processors were started on the values of a content call
ProcessorsStarted ==
    /\ pc = "awaitProcessors"
    /\ loc.contentResults # Undef
    /\ ~HasError(loc.contentResults)

\* C16: the processor of every descriptor that carries a query is handed
\* the value the backend returned under the alias of that descriptor,
\* request<i> for the descriptor at index i, and never the value of another
\* alias; also when an earlier descriptor's query did not match and has no
\* alias in the response.
C16_ProcessorGetsOwnAlias ==
    ProcessorsStarted =>
      \A i \in 1..Len(outcomes) :
        (outcomes[i].status = "pending" /\ loc.allDescriptors[i].queryAndVariables # Undef) =>
           IF Occurrences(loc.query, BlockHead(i - 1)) # {}
           THEN outcomes[i].props = [alias |-> ALIAS_PREFIX \o Digits(i - 1)]
           ELSE outcomes[i].props = Undef

\* the content call failed: no connection, a status that is not ok, or
\* an answer with errors
ContentCallFailed ==
    /\ contentResp # Undef
    /\ \/ contentResp.kind \in {"transport", "status"}
       \/ contentResp.kind = "json" /\ contentResp.json.errors.present

\* C17: when the content call fails (transport, status, errors), the
\* request resolves with error set to the {code, message} of the call, not
\* with a result without error whose components carry errors or whose data
\* is an exception.
C17_ContentCallFailureSurfaced ==
    (ContentCallFailed /\ Resolved) =>
      /\ result.error.has
      /\ result.error.val = GuillotineResultOf(fetchFromApi(contentResp)).error
      /\ result.data = Null

---------------------------------------------------------------------------
(* The slot index of the splice                                            *)

\* the members of a region spliced one after the other, in the order of the
\* component list, each at the number its last path segment spells
RECURSIVE SplicedBySegment(_, _, _)
SplicedBySegment(members, k, acc) ==
    IF k > Len(bpComps) THEN acc
    ELSE SplicedBySegment(members, k + 1,
                          IF k \in members
                          THEN Splice(acc, SlotIndex(bpComps[k].path), k) ELSE acc)

MembersOf(region) == {region.components[a] : a \in 1..Len(region.components)}

\* C18: every component that is routed to a region is spliced into it at
\* the integer value of the last segment of its path, also when that
\* segment has two digits or more (/main/10 goes to position 10, not 0).
C18_SplicedAtSegmentValue ==
    Built =>
      \A region \in RegionsBuilt :
        region.components = SplicedBySegment(MembersOf(region), 1, <<>>)

---------------------------------------------------------------------------
(* fetchGuillotine on two responses                                        *)

MaxErrors == 2

\* what the backend says about an error
ErrorDetails == {<<"Syntax error at line 3">>, <<"Access denied for user su">>}

\* json.errors with the details of the backend: one error object, or a
\* list of n of them
DetailedErrors ==
    {[present |-> TRUE, single |-> TRUE, n |-> 1, details |-> d] : d \in ErrorDetails}
    \union {[present |-> TRUE, single |-> FALSE, n |-> n, details |-> d] :
               n \in 0..MaxErrors, d \in ErrorDetails}

\* json.data: absent, the metadata of a content, the values of a content
\* call
PartialData ==
    {Undef,
     [guillotine |-> [get |-> [type |-> "app:person", _path |-> <<"/", "s", "/", "a">>,
                               components |-> Nothing]]],
     [values |-> <<[alias |-> AliasOf(0)]>>]}

GraphResponses ==
    {JsonBody(e, d) : e \in DetailedErrors \union {NoErrors}, d \in PartialData}
    \union {[kind |-> "transport"]}

ErrInit ==
    /\ gqResps \in [1..2 -> GraphResponses]
    /\ gqOut = Undef
    /\ PathIdle
    /\ CombIdle
    /\ PageIdle
    /\ FetchIdle
    /\ TwoIdle

\* the same call is answered once with each of the two responses
FetchBoth ==
    /\ gqOut = Undef
    /\ gqOut' = [k \in 1..2 |-> fetchGuillotine([query |-> MetaQuery], gqResps[k])]
    /\ UNCHANGED <<gqResps, pathVars, combVars, pageVars, fetchVars, twoVars>>

ErrNext == FetchBoth

SpecErrors == ErrInit /\ [][ErrNext]_vars

CarriesErrors(resp) == resp.kind = "json" /\ resp.json.errors.present

\* C19: a response that carries errors gives exactly {error: {code: '500',
\* message}}, and two responses with the same number of errors give the
\* same result whatever the details of the errors and whatever data comes
\* with them.
C19_ErrorsGiveCountOnly ==
    gqOut # Undef =>
      /\ \A k \in 1..2 :
            CarriesErrors(gqResps[k]) =>
              /\ DOMAIN gqOut[k] = {"error"}
              /\ DOMAIN gqOut[k].error = {"code", "message"}
              /\ gqOut[k].error.code = "500"
      /\ (/\ CarriesErrors(gqResps[1])
          /\ CarriesErrors(gqResps[2])
          /\ ErrorCount(gqResps[1].json.errors) = ErrorCount(gqResps[2].json.errors))
            => gqOut[1] = gqOut[2]

C19_Witness ==
    /\ gqOut # Undef
    /\ CarriesErrors(gqResps[1])
    /\ CarriesErrors(gqResps[2])
    /\ gqResps[1].json.errors =
          [present |-> TRUE, single |-> FALSE, n |-> 2, details |-> <<"Syntax error at line 3">>]
    /\ gqResps[1].json.data = Undef
    /\ gqResps[2].json.errors =
          [present |-> TRUE, single |-> FALSE, n |-> 2, details |-> <<"Access denied for user su">>]
    /\ gqResps[2].json.data = [values |-> <<[alias |-> AliasOf(0)]>>]
    /\ gqOut[1] = gqOut[2]
    /\ gqOut[1].error.code = "500"

---------------------------------------------------------------------------
(* The check of the content type against the render mode                   *)

RestrictedTypes ==
    {FRAGMENT_CONTENTTYPE_NAME, PAGE_TEMPLATE_CONTENTTYPE_NAME, PAGE_TEMPLATE_FOLDER}

\* metadata of a restricted type has arrived
RestrictedTypeReceived == MetaDataReceived /\ ReceivedMeta.type \in RestrictedTypes

NextMode == getRenderMode(context) = RENDER_MODE.NEXT

\* C20: metadata of type portal:fragment, portal:page-template or
\* portal:template-folder in render mode next with dev mode off resolves the
\* request with code '404' and without a content call; in another render
\* mode or in dev mode the request is not resolved with '404' and goes on
\* to the content call unless collecting the descriptors throws.  A failed
\* metadata call is reported with its own code, missing metadata with
\* '404' and a missing type with '500' before the type is looked at.
C20_RestrictedTypeRejectedInNextMode ==
    /\ RestrictedTypeReceived =>
          IF NextMode /\ ~registry.devMode
          THEN /\ Resolved
               /\ result.error.has
               /\ result.error.val.code = "404"
               /\ calls.content = 0
          ELSE /\ ~(Resolved /\ result.error.has /\ result.error.val.code = "404")
               /\ \/ calls.content = 1
                  \/ Resolved /\ result.error.has /\ result.error.val.code = "Local"
    /\ (metaResp # Undef /\ NextMode /\ ~registry.devMode) =>
          /\ MetaCallFailed =>
                /\ Resolved /\ result.error.has /\ calls.content = 0
                /\ metaResp.kind = "transport" => result.error.val.code = "API"
                /\ metaResp.kind = "status" => result.error.val.code = metaResp.status
          /\ NoMetaDataFound =>
                Resolved /\ result.error.has /\ result.error.val.code = "404"
          /\ MissingType =>
                Resolved /\ result.error.has /\ result.error.val.code = "500"

C20_Witness ==
    /\ RestrictedTypeReceived
    /\ ReceivedMeta.type = PAGE_TEMPLATE_FOLDER
    /\ NextMode
    /\ ~registry.devMode
    /\ Resolved
    /\ result.error.has
    /\ result.error.val.code = "404"
    /\ calls = [meta |-> 1, content |-> 0]

\* a restricted type in another render mode goes on to the content call
C20_WitnessOtherMode ==
    /\ RestrictedTypeReceived
    /\ ReceivedMeta.type = PAGE_TEMPLATE_CONTENTTYPE_NAME
    /\ getRenderMode(context) = RENDER_MODE.PREVIEW
    /\ ~registry.devMode
    /\ calls.content = 1

---------------------------------------------------------------------------
(* The descriptors of the components                                       *)

\* the component has a registry entry with a query
Queried(cmp) == getByComponent(cmp) # Undef /\ getByComponent(cmp).query # Undef

\* the references to the queried components of a nested list, in list order
RECURSIVE NestedRefs(_, _, _)
NestedRefs(nested, top, j) ==
    IF j > Len(nested) THEN <<>>
    ELSE (IF Queried(nested[j]) THEN <<Ref(top, j)>> ELSE <<>>)
         \o NestedRefs(nested, top, j + 1)

\* the depth-first, left-to-right sequence of the queried components that
\* are no fragments
RECURSIVE WalkRefs(_, _)
WalkRefs(components, k) ==
    IF k > Len(components) THEN <<>>
    ELSE (IF components[k].type = XP_COMPONENT_TYPE.FRAGMENT
          THEN NestedRefs(components[k].fragment.components, k, 1)
          ELSE IF Queried(components[k]) THEN <<Ref(k, 0)>> ELSE <<>>)
         \o WalkRefs(components, k + 1)

\* the descriptors collectComponentDescriptors returned: those of
\* allDescriptors behind the content-type and common descriptors
ComponentDescriptors == SubSeq(loc.allDescriptors, StartFrom + 1, Len(loc.allDescriptors))

DescriptorsCollected == QueryCombined /\ loc.components.has

---------------------------------------------------------------------------
(* The canonical form of a content path                                    *)

\* no leading slash, no trailing slash, no empty segment
Canonical(path) ==
    \/ path = <<>>
    \/ /\ path[1] # "/"
       /\ path[Len(path)] # "/"
       /\ \A i \in 1..(Len(path) - 1) : ~(path[i] = "/" /\ path[i + 1] = "/")

\* C22: for every string and every segment sequence, also with leading,
\* trailing or doubled slashes or with empty segments, the path the
\* normalizer returns has no leading slash, no trailing slash and no empty
\* segment.
C22_OutputIsCanonical ==
    (cpForm \in {"string", "array"} /\ cpOut.ok) => Canonical(cpOut.val)

---------------------------------------------------------------------------
(* Resolution of a request when every call and every processor settles     *)

\* the requests the fair specification starts from
LiveContexts ==
    {[contentPathOrArray |-> arg,
      headers |-> [fromxp |-> None, mode |-> md, xpbaseurl |-> <<>>, componentPath |-> None]] :
        arg \in {AsArgument(<<<<"a">>>>, "string"), AsArgument(<<>>, "number")},
        md \in {None, "edit"}}

LiveRegistries ==
    {[devMode |-> FALSE, contentType |-> def, commonQuery |-> Undef] :
        def \in {[query |-> SelectedQuery("string", "guillotine", <<VarP>>, "none"),
                  processor |-> TRUE, view |-> TRUE, catchAll |-> FALSE],
                 [query |-> SelectedQuery("array", "guillotine", <<VarP>>, "other"),
                  processor |-> FALSE, view |-> FALSE, catchAll |-> FALSE]}}

FetchLiveInit ==
    /\ pc = "start"
    /\ context \in LiveContexts
    /\ registry \in LiveRegistries
    /\ xpBaseUrl = <<>>
    /\ metaResp = Undef
    /\ contentResp = Undef
    /\ calls = [meta |-> 0, content |-> 0]
    /\ loc = Undef
    /\ outcomes = <<>>
    /\ result = Undef
    /\ PathIdle
    /\ CombIdle
    /\ PageIdle
    /\ TwoIdle
    /\ ErrIdle

\* some processor that is pending settles
ProcessorSettlesSome ==
    \E i \in 1..Len(outcomes) : ProcessorFulfils(i) \/ ProcessorRejects(i)

\* the step of Stitch, told by what it does to pc: from awaitProcessors
\* with every outcome settled, Stitch is the only step of FetchNext
StitchStep ==
    /\ pc = "awaitProcessors"
    /\ \A i \in 1..Len(outcomes) : outcomes[i].status # "pending"
    /\ pc' = "done"

\* the handler runs when it can, every call that was issued is answered,
\* every processor that was started settles
FetchFairness ==
    /\ WF_vars(Start)
    /\ WF_vars(MetaResponds)
    /\ WF_vars(ContentResponds)
    /\ WF_vars(ProcessorSettlesSome)
    /\ WF_pc(StitchStep)

SpecFetchLive == FetchLiveInit /\ [][FetchNext]_vars /\ FetchFairness

\* what a request that resolved has behind it
NothingPending ==
    /\ calls.meta = 1 => metaResp # Undef
    /\ calls.content = 1 => contentResp # Undef
    /\ \A i \in 1..Len(outcomes) : outcomes[i].status # "pending"

\* C23: when every issued call and every started processor settles, every
\* request eventually resolves with a FetchContentResult; and a request
\* resolves only when the calls it issued are answered and every processor
\* it started has settled, so it never resolves while one of them hangs.
C23_EventuallyResolves ==
    /\ <>Resolved
    /\ [](pc = "done" => (Resolved /\ NothingPending))
    /\ [](pc # "done" => result = Undef)

C23_Witness ==
    /\ Resolved
    /\ ~result.error.has
    /\ calls = [meta |-> 1, content |-> 1]
    /\ Len(outcomes) = 4
    /\ \E i \in 1..4 : outcomes[i].status = "rejected"

---------------------------------------------------------------------------
(* The outcomes of the content type and the common query                   *)

\* what an outcome stands for in the result: the value, or the reason
Carried(item) == IF item.status = "fulfilled" THEN item.value ELSE item.reason

\* the references of the components that were handed data or an error
Attached(components) ==
    {Ref(k, 0) : k \in {j \in 1..Len(components) :
                           components[j].data.has \/ components[j].error.has}}
    \union UNION {{Ref(k, n) : n \in {m \in 1..Len(components[k].fragment.components) :
                                        \/ components[k].fragment.components[m].data.has
                                        \/ components[k].fragment.components[m].error.has}} :
                  k \in {j \in 1..Len(components) : components[j].fragment # Undef}}

---------------------------------------------------------------------------
(* The slots and the order of the processors' outcomes                     *)

\* the processors were started: they are awaited or the request is stitched
ProcessorsRan == (pc = "awaitProcessors" \/ Stitched) /\ loc.contentResults # Undef

\* the place of descriptor i among the descriptors that carry a query
SlotOf(i) ==
    Cardinality({j \in 1..i : loc.allDescriptors[j].queryAndVariables # Undef})

\* the value the processor of descriptor i is to be handed
SlotValue(i) ==
    IF /\ loc.allDescriptors[i].queryAndVariables # Undef
       /\ SlotOf(i) <= Len(loc.contentResults.contents)
    THEN loc.contentResults.contents[SlotOf(i)]
    ELSE Undef

\* what the processor of descriptor i gives when it fulfils
FulfilledWith(i) ==
    IF loc.allDescriptors[i].type # Undef /\ loc.allDescriptors[i].type.processor
    THEN [processed |-> SlotValue(i)]
    ELSE NO_PROPS_PROCESSOR(SlotValue(i))

\* the outcome list has one entry per descriptor, in descriptor order, and
\* each entry goes back to the slot of its own descriptor
OutcomesBySlot ==
    ProcessorsRan =>
      /\ Len(outcomes) = Len(loc.allDescriptors)
      /\ ~HasError(loc.contentResults) =>
           \A i \in 1..Len(outcomes) :
              /\ outcomes[i].status = "pending" => outcomes[i].props = SlotValue(i)
              /\ outcomes[i].status = "fulfilled" => outcomes[i].value = FulfilledWith(i)

\* the step that starts the processors starts all of them, and none has
\* been awaited: what is not pending was rejected for want of contents
AllStartedAtOnce ==
    (pc # "awaitProcessors" /\ pc' = "awaitProcessors") =>
       /\ Len(outcomes') = Len(loc'.allDescriptors)
       /\ \A i \in 1..Len(outcomes') :
             \/ outcomes'[i].status = "pending"
             \/ HasError(loc'.contentResults) /\ outcomes'[i].status = "rejected"

\* a processor that settles changes its own entry and no other
SettlesInPlace ==
    (pc = "awaitProcessors" /\ pc' = "awaitProcessors") =>
       \E i \in 1..Len(outcomes) :
          /\ outcomes[i].status = "pending"
          /\ outcomes'[i].status # "pending"
          /\ outcomes' = [outcomes EXCEPT ![i] = outcomes'[i]]

\* C25: all processors are started before any is awaited; the slot a
\* descriptor's processor is handed is fixed by the descriptor's place
\* among the descriptors that carry a query, the k-th reading contents[k];
\* the outcome list has one entry per descriptor in descriptor order; and
\* neither the slots nor the order of the outcomes depend on the order in
\* which the processors complete.
C25_SlotsAndOrderFixedAtStart ==
    /\ []OutcomesBySlot
    /\ [][AllStartedAtOnce /\ SettlesInPlace]_vars

\* a later processor has completed before the first one
C25_Witness ==
    /\ pc = "awaitProcessors"
    /\ ~HasError(loc.contentResults)
    /\ Len(outcomes) = 3
    /\ Len(loc.contentResults.contents) = 3
    /\ loc.contentResults.contents[1] # loc.contentResults.contents[3]
    /\ outcomes[1].status = "pending"
    /\ outcomes[1].props = loc.contentResults.contents[1]
    /\ outcomes[2].status = "rejected"
    /\ outcomes[3].status = "fulfilled"
    /\ outcomes[3].value \in {[processed |-> loc.contentResults.contents[3]],
                              loc.contentResults.contents[3]}

---------------------------------------------------------------------------
(* The region tree and the page that is returned                           *)

\* the page data a view is given: page.page of the returned node, with the
\* regions that hang on it
PageDataOf(out) ==
    IF out.page.page = Undef THEN Undef
    ELSE [descriptor |-> out.page.page.descriptor,
          regions |-> IF out.attached THEN out.tree ELSE Undef]

\* the components FragmentView renders
FragmentView(page, component) ==
    IF page # Undef
    THEN LET regions == IF page.regions = Undef THEN EmptyTree ELSE page.regions
         IN  IF FRAGMENT_DEFAULT_REGION_NAME \in DOMAIN regions
             THEN regions[FRAGMENT_DEFAULT_REGION_NAME].components
             ELSE <<>>
    ELSE IF component # Undef THEN component.fragment.components
    ELSE <<>>

HasPageComponent(comps) ==
    \E k \in 1..Len(comps) : comps[k].path = RootPath /\ comps[k].type = "page"

BarePage == [type |-> "page", path |-> RootPath, page |-> Undef]

\* C26: the region tree buildPage fills hangs on the returned page, as
\* page.page.regions, exactly when the component list holds a component
\* with path / and type page; without one the returned page is the bare
\* node of type page and path /, and the components that were routed into
\* regions are not reached from it.
C26_TreeReachableOnlyWithPageComponent ==
    Built =>
      /\ bpOut.attached <=> HasPageComponent(bpComps)
      /\ bpOut.attached =>
            /\ PageDataOf(bpOut) # Undef
            /\ PageDataOf(bpOut).regions = bpOut.tree
            /\ FRAGMENT_DEFAULT_REGION_NAME \in DOMAIN bpOut.tree =>
                  FragmentView(PageDataOf(bpOut), Undef)
                     = bpOut.tree[FRAGMENT_DEFAULT_REGION_NAME].components
      /\ ~bpOut.attached =>
            /\ bpOut.page = BarePage
            /\ FragmentView(PageDataOf(bpOut), Undef) = <<>>

\* a fragment content whose root is a part: the part is routed into the
\* default region, and the page that comes back is bare
C26_Witness ==
    /\ Built
    /\ bpType = FRAGMENT_CONTENTTYPE_NAME
    /\ ~HasPageComponent(bpComps)
    /\ Len(bpComps) >= 1
    /\ bpComps[1] = Component("part", RootPath)
    /\ bpOut.tree[FRAGMENT_DEFAULT_REGION_NAME].components = <<1>>
    /\ bpOut.page = BarePage
    /\ ~bpOut.attached

====
